---- MODULE Spec2Model ----
(***************************************************************************)
(* Model of the tree containers of hello-algo-live (crate `base`):         *)
(*   - AvlTree            (src/base/src/avl_tree.rs)                       *)
(*   - BinarySearchTree   (src/base/src/binary_tree.rs)                    *)
(*   - BinaryTree and the bt:: kernels (binary_tree.rs, lib.rs)            *)
(*                                                                         *)
(* Every Rc<RefCell<Node>> is a cell of a heap: a function from node       *)
(* identities (positive integers) to node records.  Option<Rc<..>> is a    *)
(* node identity or NIL.  A panic (a failed unwrap()) is the flag `panic`  *)
(* of an operation's result and the variable `panicked` of the state.      *)
(***************************************************************************)
EXTENDS Integers, Sequences, FiniteSets, TLC

VARIABLES
    avlHeap,      \* the AvlTreeNode cells that are alive
    avlRoot,      \* AvlTree::root
    avlInserted,  \* history: the values AvlTree::insert was called with
    bstHeap,      \* the TreeNode cells of the BinarySearchTree
    bstRoot,      \* BinarySearchTree::root
    bstPresent,   \* history: values inserted and not removed since
    btHeap,       \* the TreeNode cells of the BinaryTree
    btRoot,       \* BinaryTree::root
    btCreated,    \* history: the values of the BinaryTree's nodes, oldest first
    copyHeap,     \* the TreeNode cells of the BinaryTree AvlTree::to_tree made
    copyRoot,     \* the root of that BinaryTree
    qQueue,       \* QueueWithArray::queue, slot i of the array at qQueue[i + 1]
    qFront,       \* QueueWithArray::front
    qLen,         \* QueueWithArray::len
    qFifo,        \* history: the elements pushed and not popped, oldest first
    maxHeap,      \* the Vec of the MaxHeap, index i at maxHeap[i + 1]
    topHeap,      \* the BinaryHeap top_k_heap returned, its smallest element first
    llHeap,       \* the Node cells of the LinkedLists that are allocated
    llA,          \* a LinkedList: its head, tail and len
    llB,          \* a second LinkedList, the `other` of append
    llSeqA,       \* history: the elements of llA front to back
    llSeqB,       \* history: the elements of llB front to back
    last,         \* the last call: its name, argument and return value
    panicked      \* TRUE once an unwrap() failed

vars == <<avlHeap, avlRoot, avlInserted, bstHeap, bstRoot, bstPresent,
          btHeap, btRoot, btCreated, copyHeap, copyRoot,
          qQueue, qFront, qLen, qFifo, maxHeap,
          topHeap, llHeap, llA, llB, llSeqA, llSeqB, last, panicked>>

avlVars == <<avlHeap, avlRoot, avlInserted>>
bstVars == <<bstHeap, bstRoot, bstPresent>>
btVars == <<btHeap, btRoot, btCreated>>
copyVars == <<copyHeap, copyRoot>>
queueVars == <<qQueue, qFront, qLen, qFifo>>
heapVars == <<maxHeap>>
topVars == <<topHeap>>
listVars == <<llHeap, llA, llB, llSeqA, llSeqB>>

\* ------------------------------------------------------------------ bounds
\* AvlTree values are drawn from 1..AvlMaxVal
AvlMaxVal == 6
\* BinarySearchTree values are drawn from 1..BstMaxVal
BstMaxVal == 4
\* BinaryTree values are drawn from 1..BtMaxVal
BtMaxVal == 2
\* a BinaryTree holds at most BtMaxNodes nodes
BtMaxNodes == 4
\* where an AvlTree and a BinarySearchTree are inserted into side by side,
\* the values are drawn from 1..InsertMaxVal
InsertMaxVal == 3
\* where the rotations are called on the nodes of an AvlTree, its values are
\* drawn from 1..RotateMaxVal
RotateMaxVal == 3
\* the values 1..RebalanceMaxVal are inserted, in this order, into the
\* AvlTree whose subtrees fn rotate is called on
RebalanceMaxVal == 6
\* the longest ascending run 1, 2, .., N inserted into an AvlTree
AscMaxN == 127
\* where an AvlTree is copied by to_tree, its values are drawn from 1..CopyMaxVal
CopyMaxVal == 4
\* a BinaryTree that is only inserted into holds at most CompleteMaxNodes nodes
CompleteMaxNodes == 7
\* the values of a MaxHeap are drawn from 1..HeapMaxVal
HeapMaxVal == 3
\* a MaxHeap holds at most HeapMaxLen values
HeapMaxLen == 5
\* MaxHeap::from_vec is called with lists of at most FromVecMaxLen values
FromVecMaxLen == 4
\* the width of usize in the model: usize arithmetic is modulo 2^UsizeBits
\* (64 on the targets the crate is built for)
UsizeBits == 4
\* top_k_heap is called with lists of at most TopKMaxLen values
TopKMaxLen == 3
\* drawn from 1..TopKMaxVal
TopKMaxVal == 3
\* and with k in 0..TopKMaxK
TopKMaxK == 4
\* a LinkedList holds at most ListMaxLen elements
ListMaxLen == 3
\* drawn from 1..ListMaxVal
ListMaxVal == 2
\* the cells two LinkedLists hold together while one is appended to the other
AppendMaxCells == 3
\* the const parameter N of QueueWithArray<T, N>
QueueCap == 3
\* the elements pushed into a QueueWithArray are drawn from 1..QueueMaxVal
QueueMaxVal == 2

AvlValues == 1..AvlMaxVal
BstValues == 1..BstMaxVal
BtValues == 1..BtMaxVal
InsertValues == 1..InsertMaxVal
QueueValues == 1..QueueMaxVal
CopyValues == 1..CopyMaxVal
RotateValues == 1..RotateMaxVal
HeapValues == 1..HeapMaxVal
TopKValues == 1..TopKMaxVal
ListValues == 1..ListMaxVal

\* ------------------------------------------------------------------ heap
\* Option::None of an OptionNodeRc
NIL == 0

EmptyHeap == <<>>

\* Rc::new: the identity of a fresh cell (the smallest one not alive)
Alloc(h) ==
    CHOOSE i \in 1..(Cardinality(DOMAIN h) + 1) :
        /\ i \notin DOMAIN h
        /\ \A j \in 1..(i - 1) : j \in DOMAIN h

\* the cells reachable from node n along left/right, added to `seen` (a cell
\* is entered once, so the walk ends on any heap)
RECURSIVE ReachFrom(_, _, _)
ReachFrom(h, n, seen) ==
    IF n = NIL \/ n \in seen \/ n \notin DOMAIN h THEN seen
    ELSE ReachFrom(h, h[n].right, ReachFrom(h, h[n].left, seen \cup {n}))

Reachable(h, n) == ReachFrom(h, n, {})

\* Rc drop: a cell no handle refers to any more is released
DropUnreachable(h, root) ==
    [n \in Reachable(h, root) |-> h[n]]

\* the values held by the nodes of the tree rooted at `root`
Values(h, root) == {h[n].value : n \in Reachable(h, root)}

\* Option<T>: None, and Some(x)
None == <<>>
Some(x) == <<x>>

Max2(a, b) == IF a >= b THEN a ELSE b

\* the record of the last call: `node` is the node a search returned (for
\* remove, the cell its descent stopped at), `vec` the sequence a traversal
\* returned, `flag` the boolean a contains returned (for insert and remove,
\* whether the tree held the value when the call was made)
Call(op, arg, node, vec, flag) ==
    [op |-> op, arg |-> arg, node |-> node, vec |-> vec, flag |-> flag]

\* ------------------------------------------------------------------ AvlTree
\* AvlTreeNode::new
AvlTreeNode_new(val) ==
    [value |-> val, height |-> 0, left |-> NIL, right |-> NIL]

\* what a function on the heap returns: the heap after it, the node it
\* returns, and whether it panicked
Ret(h, n) == [heap |-> h, node |-> n, panic |-> FALSE]
Panic(h) == [heap |-> h, node |-> NIL, panic |-> TRUE]

\* fn height
height(h, node) == IF node = NIL THEN -1 ELSE h[node].height

\* fn update_height
update_height(h, node) ==
    LET left_height == height(h, h[node].left)
        right_height == height(h, h[node].right)
    IN [h EXCEPT ![node].height = Max2(left_height, right_height) + 1]

\* fn balance_factor
balance_factor(h, node) ==
    IF node = NIL THEN 0
    ELSE height(h, h[node].left) - height(h, h[node].right)

\* right_rotate with the two height updates in the wrong order: the child's
\* height is computed while the node below it still has its old height
right_rotate_child_first(h, node) ==
    IF node = NIL THEN Ret(h, NIL)
    ELSE IF h[node].left = NIL THEN Panic(h)
    ELSE LET child == h[node].left
             grand_child == h[child].right
             h1 == [h EXCEPT ![node].left = grand_child]
             h2 == [h1 EXCEPT ![child].right = node]
             h3 == update_height(h2, child)
             h4 == update_height(h3, node)
         IN Ret(h4, child)

\* right_rotate that returns the node as it is when it has no left child
right_rotate_silent(h, node) ==
    IF node = NIL THEN Ret(h, NIL)
    ELSE IF h[node].left = NIL THEN Ret(h, node)
    ELSE LET child == h[node].left
             grand_child == h[child].right
             h1 == [h EXCEPT ![node].left = grand_child]
             h2 == update_height(h1, node)
             h3 == [h2 EXCEPT ![child].right = node]
             h4 == update_height(h3, child)
         IN Ret(h4, child)

\* fn right_rotate
right_rotate(h, node) ==
    IF node = NIL THEN Ret(h, NIL)
    ELSE IF h[node].left = NIL THEN Panic(h)
    ELSE LET child == h[node].left
             grand_child == h[child].right
             h1 == [h EXCEPT ![node].left = grand_child]
             h2 == update_height(h1, node)
             h3 == [h2 EXCEPT ![child].right = node]
             h4 == update_height(h3, child)
         IN Ret(h4, child)

\* left_rotate that forgets to hand the child's left subtree to the node
left_rotate_drops_grand_child(h, node) ==
    IF node = NIL THEN Ret(h, NIL)
    ELSE IF h[node].right = NIL THEN Panic(h)
    ELSE LET child == h[node].right
             h1 == [h EXCEPT ![node].right = NIL]
             h2 == update_height(h1, node)
             h3 == [h2 EXCEPT ![child].left = node]
             h4 == update_height(h3, child)
         IN Ret(h4, child)

\* fn left_rotate
left_rotate(h, node) ==
    IF node = NIL THEN Ret(h, NIL)
    ELSE IF h[node].right = NIL THEN Panic(h)
    ELSE LET child == h[node].right
             grand_child == h[child].left
             h1 == [h EXCEPT ![node].right = grand_child]
             h2 == update_height(h1, node)
             h3 == [h2 EXCEPT ![child].left = node]
             h4 == update_height(h3, child)
         IN Ret(h4, child)

\* rotate without the double rotations: the child's balance factor is not
\* looked at
rotate_single_only(h, node) ==
    LET factor == balance_factor(h, node)
    IN IF factor > 1 THEN
           IF node = NIL THEN Panic(h) ELSE right_rotate(h, node)
       ELSE IF factor < -1 THEN
           IF node = NIL THEN Panic(h) ELSE left_rotate(h, node)
       ELSE Ret(h, node)

\* rotate whose double rotations turn the child the same way as the node
rotate_inner_same_way(h, node) ==
    LET factor == balance_factor(h, node)
    IN IF factor > 1 THEN
           IF node = NIL THEN Panic(h)
           ELSE IF balance_factor(h, h[node].left) >= 0 THEN
               right_rotate(h, node)
           ELSE
               LET r == right_rotate(h, h[node].left)
               IN IF r.panic THEN r
                  ELSE right_rotate([r.heap EXCEPT ![node].left = r.node], node)
       ELSE IF factor < -1 THEN
           IF node = NIL THEN Panic(h)
           ELSE IF balance_factor(h, h[node].right) <= 0 THEN
               left_rotate(h, node)
           ELSE
               LET r == left_rotate(h, h[node].right)
               IN IF r.panic THEN r
                  ELSE left_rotate([r.heap EXCEPT ![node].right = r.node], node)
       ELSE Ret(h, node)

\* rotate without the branch of the right-heavy node
rotate_left_heavy_only(h, node) ==
    LET factor == balance_factor(h, node)
    IN IF factor > 1 THEN
           IF node = NIL THEN Panic(h)
           ELSE IF balance_factor(h, h[node].left) >= 0 THEN
               right_rotate(h, node)
           ELSE
               LET r == left_rotate(h, h[node].left)
               IN IF r.panic THEN r
                  ELSE right_rotate([r.heap EXCEPT ![node].left = r.node], node)
       ELSE Ret(h, node)

\* rotate that never rotates: the node is returned as it is
rotate_never(h, node) == Ret(h, node)

\* fn rotate
rotate(h, node) ==
    LET factor == balance_factor(h, node)
    IN IF factor > 1 THEN
           IF node = NIL THEN Panic(h)
           ELSE IF balance_factor(h, h[node].left) >= 0 THEN
               right_rotate(h, node)
           ELSE
               LET r == left_rotate(h, h[node].left)
               IN IF r.panic THEN r
                  ELSE right_rotate([r.heap EXCEPT ![node].left = r.node], node)
       ELSE IF factor < -1 THEN
           IF node = NIL THEN Panic(h)
           ELSE IF balance_factor(h, h[node].right) <= 0 THEN
               left_rotate(h, node)
           ELSE
               LET r == right_rotate(h, h[node].right)
               IN IF r.panic THEN r
                  ELSE left_rotate([r.heap EXCEPT ![node].right = r.node], node)
       ELSE Ret(h, node)

\* insert_recursive without the Ordering::Equal arm: an equal value goes right
RECURSIVE insert_recursive_no_equal(_, _, _)
insert_recursive_no_equal(h, node, val) ==
    IF node = NIL THEN
        LET n == Alloc(h) IN Ret(h @@ (n :> AvlTreeNode_new(val)), n)
    ELSE IF h[node].value > val THEN
        LET r == insert_recursive_no_equal(h, h[node].left, val)
        IN IF r.panic THEN r
           ELSE rotate(update_height([r.heap EXCEPT ![node].left = r.node], node),
                       node)
    ELSE
        LET r == insert_recursive_no_equal(h, h[node].right, val)
        IN IF r.panic THEN r
           ELSE rotate(update_height([r.heap EXCEPT ![node].right = r.node], node),
                       node)

\* fn insert_recursive
RECURSIVE insert_recursive(_, _, _)
insert_recursive(h, node, val) ==
    IF node = NIL THEN
        LET n == Alloc(h) IN Ret(h @@ (n :> AvlTreeNode_new(val)), n)
    ELSE IF h[node].value = val THEN Ret(h, node)
    ELSE IF h[node].value > val THEN
        LET r == insert_recursive(h, h[node].left, val)
        IN IF r.panic THEN r
           ELSE rotate(update_height([r.heap EXCEPT ![node].left = r.node], node),
                       node)
    ELSE
        LET r == insert_recursive(h, h[node].right, val)
        IN IF r.panic THEN r
           ELSE rotate(update_height([r.heap EXCEPT ![node].right = r.node], node),
                       node)

\* AvlTree::search with the Less and Greater arms exchanged
RECURSIVE AvlTree_search_swapped(_, _, _)
AvlTree_search_swapped(h, current, target) ==
    IF current = NIL THEN NIL
    ELSE IF target = h[current].value THEN current
    ELSE IF target < h[current].value THEN
        AvlTree_search_swapped(h, h[current].right, target)
    ELSE AvlTree_search_swapped(h, h[current].left, target)

\* AvlTree::search: the loop from `current`
RECURSIVE AvlTree_search(_, _, _)
AvlTree_search(h, current, target) ==
    IF current = NIL THEN NIL
    ELSE IF target = h[current].value THEN current
    ELSE IF target < h[current].value THEN AvlTree_search(h, h[current].left, target)
    ELSE AvlTree_search(h, h[current].right, target)

\* ------------------------------------------------------------------ bt::
\* binary_tree::TreeNode::new
TreeNode_new(val) == [value |-> val, left |-> NIL, right |-> NIL]

\* bt::in_order_recursive: `ordered` after the call
RECURSIVE in_order_recursive(_, _, _)
in_order_recursive(h, root, ordered) ==
    IF root = NIL THEN ordered
    ELSE LET o1 == in_order_recursive(h, h[root].left, ordered)
             o2 == Append(o1, h[root].value)
         IN in_order_recursive(h, h[root].right, o2)

\* bt::in_order
in_order(h, root) == in_order_recursive(h, root, <<>>)

\* bt::pre_order_recursive with the push moved after the left subtree
RECURSIVE pre_order_recursive_push_late(_, _, _)
pre_order_recursive_push_late(h, root, ordered) ==
    IF root = NIL THEN ordered
    ELSE LET o1 == pre_order_recursive_push_late(h, h[root].left, ordered)
             o2 == Append(o1, h[root].value)
         IN pre_order_recursive_push_late(h, h[root].right, o2)

\* bt::pre_order_recursive: `ordered` after the call
RECURSIVE pre_order_recursive(_, _, _)
pre_order_recursive(h, root, ordered) ==
    IF root = NIL THEN ordered
    ELSE LET o1 == Append(ordered, h[root].value)
             o2 == pre_order_recursive(h, h[root].left, o1)
         IN pre_order_recursive(h, h[root].right, o2)

\* bt::pre_order
pre_order(h, root) == pre_order_recursive(h, root, <<>>)

\* bt::post_order_recursive: `ordered` after the call
RECURSIVE post_order_recursive(_, _, _)
post_order_recursive(h, root, ordered) ==
    IF root = NIL THEN ordered
    ELSE LET o1 == post_order_recursive(h, h[root].left, ordered)
             o2 == post_order_recursive(h, h[root].right, o1)
         IN Append(o2, h[root].value)

\* bt::post_order
post_order(h, root) == post_order_recursive(h, root, <<>>)

\* fn clone_tree with the two subtrees exchanged in the new node
RECURSIVE clone_tree_mirrored(_, _, _)
clone_tree_mirrored(h, node, bh) ==
    IF node = NIL THEN Ret(bh, NIL)
    ELSE LET l == clone_tree_mirrored(h, h[node].left, bh)
             r == clone_tree_mirrored(h, h[node].right, l.heap)
             n == Alloc(r.heap)
         IN Ret(r.heap @@ (n :> [value |-> h[node].value,
                                 left |-> r.node, right |-> l.node]), n)

\* fn clone_tree: the BinaryTree cells are made in `bh`; the struct literal
\* evaluates left, value, right and then Rc::new makes the cell
RECURSIVE clone_tree(_, _, _)
clone_tree(h, node, bh) ==
    IF node = NIL THEN Ret(bh, NIL)
    ELSE LET l == clone_tree(h, h[node].left, bh)
             r == clone_tree(h, h[node].right, l.heap)
             n == Alloc(r.heap)
         IN Ret(r.heap @@ (n :> [value |-> h[node].value,
                                 left |-> l.node, right |-> r.node]), n)

\* AvlTree::to_tree
to_tree(h, root) == clone_tree(h, root, EmptyHeap)

\* BinaryTree::to_vec of AvlTree::to_tree
AvlToTreeToVec(h, root) ==
    LET t == to_tree(h, root) IN in_order(t.heap, t.node)

\* ------------------------------------------------------------------ BinarySearchTree
\* the descent loop of BinarySearchTree::insert and ::remove: `current` and
\* `previous` when the loop ends (on an equal value, or on an absent child)
RECURSIVE descend(_, _, _, _)
descend(h, current, previous, val) ==
    IF current = NIL THEN [current |-> NIL, previous |-> previous]
    ELSE IF val = h[current].value THEN [current |-> current, previous |-> previous]
    ELSE IF val < h[current].value THEN descend(h, h[current].left, current, val)
    ELSE descend(h, h[current].right, current, val)

\* BinarySearchTree::search with the Less and Greater arms exchanged
RECURSIVE BinarySearchTree_search_swapped(_, _, _)
BinarySearchTree_search_swapped(h, current, target) ==
    IF current = NIL THEN NIL
    ELSE IF target = h[current].value THEN current
    ELSE IF target < h[current].value THEN
        BinarySearchTree_search_swapped(h, h[current].right, target)
    ELSE BinarySearchTree_search_swapped(h, h[current].left, target)

\* BinarySearchTree::search: the loop from `current`
RECURSIVE BinarySearchTree_search(_, _, _)
BinarySearchTree_search(h, current, target) ==
    IF current = NIL THEN NIL
    ELSE IF target = h[current].value THEN current
    ELSE IF target < h[current].value THEN
        BinarySearchTree_search(h, h[current].left, target)
    ELSE BinarySearchTree_search(h, h[current].right, target)

\* BinarySearchTree::insert with the final comparison turned round
BinarySearchTree_insert_wrong_side(h, root, val) ==
    IF root = NIL THEN
        LET n == Alloc(h) IN Ret(h @@ (n :> TreeNode_new(val)), n)
    ELSE LET d == descend(h, root, NIL, val)
         IN IF d.current # NIL THEN Ret(h, root)
            ELSE IF d.previous = NIL THEN Panic(h)
            ELSE LET previous == d.previous
                     n == Alloc(h)
                     h1 == h @@ (n :> TreeNode_new(val))
                 IN IF val < h[previous].value
                    THEN Ret([h1 EXCEPT ![previous].right = n], root)
                    ELSE Ret([h1 EXCEPT ![previous].left = n], root)

\* BinarySearchTree::insert: the heap and self.root after the call
BinarySearchTree_insert(h, root, val) ==
    IF root = NIL THEN
        LET n == Alloc(h) IN Ret(h @@ (n :> TreeNode_new(val)), n)
    ELSE LET d == descend(h, root, NIL, val)
         IN IF d.current # NIL THEN Ret(h, root)
            ELSE IF d.previous = NIL THEN Panic(h)
            ELSE LET previous == d.previous
                     n == Alloc(h)
                     h1 == h @@ (n :> TreeNode_new(val))
                 IN IF val > h[previous].value
                    THEN Ret([h1 EXCEPT ![previous].right = n], root)
                    ELSE Ret([h1 EXCEPT ![previous].left = n], root)

\* the successor loop that descends to the right: the last node is taken
RECURSIVE leftmost_goes_right(_, _)
leftmost_goes_right(h, next) ==
    IF next = NIL THEN NIL
    ELSE IF h[next].right # NIL THEN leftmost_goes_right(h, h[next].right)
    ELSE next

\* the successor loop that never descends: the right child is taken
leftmost_no_descent(h, next) == next

\* the successor loop of BinarySearchTree::remove: the leftmost node from `next`
RECURSIVE leftmost(_, _)
leftmost(h, next) ==
    IF next = NIL THEN NIL
    ELSE IF h[next].left # NIL THEN leftmost(h, h[next].left)
    ELSE next

RECURSIVE BinarySearchTree_remove(_, _, _)

\* remove_found that hands the child of a node with one child to both child
\* slots of the parent
remove_found_both_slots(h, root, current, previous) ==
    LET left_child == h[current].left
        right_child == h[current].right
    IN IF left_child = NIL \/ right_child = NIL THEN
           LET child == IF left_child # NIL THEN left_child ELSE right_child
           IN IF current = root THEN Ret(DropUnreachable(h, child), child)
              ELSE IF previous = NIL THEN Panic(h)
              ELSE Ret(DropUnreachable([h EXCEPT ![previous].left = child,
                                                 ![previous].right = child], root),
                       root)
       ELSE
           LET next == leftmost(h, h[current].right)
           IN IF next = NIL THEN Panic(h)
              ELSE LET next_val == h[next].value
                       r == BinarySearchTree_remove(h, root, next_val)
                   IN IF r.panic THEN r
                      ELSE Ret([r.heap EXCEPT ![current].value = next_val], r.node)

\* BinarySearchTree::remove once the descent has found `current`: the heap and
\* self.root after the call.  The cell taken out of the tree is released
\* when the last handle to it (`current`) goes out of scope
remove_found(h, root, current, previous) ==
    LET left_child == h[current].left
        right_child == h[current].right
    IN IF left_child = NIL \/ right_child = NIL THEN
           LET child == IF left_child # NIL THEN left_child ELSE right_child
           IN IF current = root THEN Ret(DropUnreachable(h, child), child)
              ELSE IF previous = NIL THEN Panic(h)
              ELSE IF h[previous].left # NIL /\ h[previous].left = current
              THEN Ret(DropUnreachable([h EXCEPT ![previous].left = child], root),
                       root)
              ELSE Ret(DropUnreachable([h EXCEPT ![previous].right = child], root),
                       root)
       ELSE
           LET next == leftmost(h, h[current].right)
           IN IF next = NIL THEN Panic(h)
              ELSE LET next_val == h[next].value
                       r == BinarySearchTree_remove(h, root, next_val)
                   IN IF r.panic THEN r
                      ELSE Ret([r.heap EXCEPT ![current].value = next_val], r.node)

\* BinarySearchTree::remove without its two early returns: `current` is
\* unwrapped whether or not the descent found the value
BinarySearchTree_remove_no_return(h, root, val) ==
    LET d == descend(h, root, NIL, val)
    IN IF d.current = NIL THEN Panic(h)
       ELSE remove_found(h, root, d.current, d.previous)

\* BinarySearchTree::remove: the empty-tree return, the descent and the
\* not-found return
BinarySearchTree_remove(h, root, val) ==
    IF root = NIL THEN Ret(h, root)
    ELSE LET d == descend(h, root, NIL, val)
         IN IF d.current = NIL THEN Ret(h, root)
            ELSE remove_found(h, root, d.current, d.previous)

\* how many calls of BinarySearchTree::remove are nested in remove(val):
\* one for each time the two-children arm calls self.remove(&next_val)
RECURSIVE remove_nesting(_, _, _)
remove_nesting(h, root, val) ==
    IF root = NIL THEN 0
    ELSE LET d == descend(h, root, NIL, val)
         IN IF d.current = NIL THEN 0
            ELSE IF h[d.current].left = NIL \/ h[d.current].right = NIL THEN 0
            ELSE LET next == leftmost(h, h[d.current].right)
                 IN IF next = NIL THEN 0
                    ELSE 1 + remove_nesting(h, root, h[next].value)

\* ------------------------------------------------------------------ BinaryTree
\* the loop of BinaryTree::insert with the right child slot tried first
RECURSIVE BinaryTree_insert_loop_right_first(_, _, _)
BinaryTree_insert_loop_right_first(h, queue, new_node) ==
    IF queue = <<>> THEN h
    ELSE LET current == Head(queue)
         IN IF h[current].right = NIL THEN [h EXCEPT ![current].right = new_node]
            ELSE IF h[current].left = NIL THEN [h EXCEPT ![current].left = new_node]
            ELSE BinaryTree_insert_loop_right_first(
                     h, Tail(queue) \o <<h[current].left, h[current].right>>, new_node)

\* BinaryTree::insert: the level-order loop over `queue`
RECURSIVE BinaryTree_insert_loop(_, _, _)
BinaryTree_insert_loop(h, queue, new_node) ==
    IF queue = <<>> THEN h
    ELSE LET current == Head(queue)
         IN IF h[current].left = NIL THEN [h EXCEPT ![current].left = new_node]
            ELSE IF h[current].right = NIL THEN [h EXCEPT ![current].right = new_node]
            ELSE BinaryTree_insert_loop(
                     h, Tail(queue) \o <<h[current].left, h[current].right>>, new_node)

\* BinaryTree::insert
BinaryTree_insert(h, root, val) ==
    LET new_node == Alloc(h)
        h1 == h @@ (new_node :> TreeNode_new(val))
    IN IF root = NIL THEN Ret(h1, new_node)
       ELSE Ret(BinaryTree_insert_loop(h1, <<root>>, new_node), root)

\* the loop of bt::contains_bfs with `else if` before the right child: it is
\* queued only when there is no left child
RECURSIVE contains_bfs_loop_else_if(_, _, _)
contains_bfs_loop_else_if(h, queue, val) ==
    IF queue = <<>> THEN FALSE
    ELSE LET node == Head(queue)
             q0 == Tail(queue)
             q1 == IF h[node].left # NIL THEN Append(q0, h[node].left)
                   ELSE IF h[node].right # NIL THEN Append(q0, h[node].right)
                   ELSE q0
         IN IF h[node].value = val THEN TRUE
            ELSE contains_bfs_loop_else_if(h, q1, val)

\* bt::contains_bfs: the loop over `queue` (pop_front, push_back)
RECURSIVE contains_bfs_loop(_, _, _)
contains_bfs_loop(h, queue, val) ==
    IF queue = <<>> THEN FALSE
    ELSE LET node == Head(queue)
             q0 == Tail(queue)
             q1 == IF h[node].left # NIL THEN Append(q0, h[node].left) ELSE q0
             q2 == IF h[node].right # NIL THEN Append(q1, h[node].right) ELSE q1
         IN IF h[node].value = val THEN TRUE
            ELSE contains_bfs_loop(h, q2, val)

\* bt::contains_bfs
contains_bfs(h, root, val) ==
    contains_bfs_loop(h, IF root # NIL THEN <<root>> ELSE <<>>, val)

\* bt::contains_dfs: the loop over `stack` (pop and push at the back)
RECURSIVE contains_dfs_loop(_, _, _)
contains_dfs_loop(h, stack, val) ==
    IF stack = <<>> THEN FALSE
    ELSE LET node == stack[Len(stack)]
             s0 == SubSeq(stack, 1, Len(stack) - 1)
             s1 == IF h[node].left # NIL THEN Append(s0, h[node].left) ELSE s0
             s2 == IF h[node].right # NIL THEN Append(s1, h[node].right) ELSE s1
         IN IF h[node].value = val THEN TRUE
            ELSE contains_dfs_loop(h, s2, val)

\* bt::contains_dfs
contains_dfs(h, root, val) ==
    contains_dfs_loop(h, IF root # NIL THEN <<root>> ELSE <<>>, val)

\* bt::contains
RECURSIVE contains(_, _, _)
contains(h, root, val) ==
    IF root = NIL THEN FALSE
    ELSE IF h[root].value = val THEN TRUE
    ELSE contains(h, h[root].left, val) \/ contains(h, h[root].right, val)

\* ------------------------------------------------------------------ QueueWithArray
\* a QueueWithArray<T, N> value: slot i of `queue` is queue[i + 1]
QueueWithArray(queue, front, len) == [queue |-> queue, front |-> front, len |-> len]

\* QueueWithArray::cap, set to N by new and never written again
cap == QueueCap

\* QueueWithArray::new
QueueWithArray_new == QueueWithArray([i \in 1..QueueCap |-> None], 0, 0)

\* QueueWithArray::is_empty
QueueWithArray_is_empty(q) == q.len = 0

\* what a method returns: the queue after it, its return value, and whether
\* it panicked
QRet(q, ret) == [q |-> q, ret |-> ret, panic |-> FALSE]
QPanic(q) == [q |-> q, ret |-> None, panic |-> TRUE]

\* push that writes at len % cap, whatever `front` is
QueueWithArray_push_ignores_front(q, elem) ==
    IF q.len = cap THEN QPanic(q)
    ELSE LET real == q.len % cap
         IN QRet([q EXCEPT !.queue[real + 1] = Some(elem), !.len = @ + 1], None)

\* push without the check for a full queue
QueueWithArray_push_overwrites(q, elem) ==
    LET real == (q.front + q.len) % cap
    IN QRet([q EXCEPT !.queue[real + 1] = Some(elem), !.len = @ + 1], None)

\* QueueWithArray::push
QueueWithArray_push(q, elem) ==
    IF q.len = cap THEN QPanic(q)
    ELSE LET real == (q.front + q.len) % cap
         IN QRet([q EXCEPT !.queue[real + 1] = Some(elem), !.len = @ + 1], None)

\* QueueWithArray::pop
QueueWithArray_pop(q) ==
    IF QueueWithArray_is_empty(q) THEN QRet(q, None)
    ELSE LET front == q.queue[q.front + 1]
         IN QRet([q EXCEPT !.queue[q.front + 1] = None,
                           !.front = (q.front + 1) % cap,
                           !.len = @ - 1], front)

\* QueueWithArray::peek
QueueWithArray_peek(q) ==
    IF QueueWithArray_is_empty(q) THEN None ELSE q.queue[q.front + 1]

\* QueueWithArray::tail.  `real - 1` is a usize subtraction: with real = 0 it
\* panics where overflow is checked, and where it wraps the index is
\* usize::MAX, which is out of the bounds of the array: a panic in both builds
QueueWithArray_tail(q) ==
    IF QueueWithArray_is_empty(q) THEN QRet(q, None)
    ELSE LET real == (q.front + q.len) % cap
         IN IF real = 0 THEN QPanic(q)
            ELSE QRet(q, q.queue[(real - 1) + 1])

\* QueueWithArray::len
QueueWithArray_len(q) == q.len

\* QueueWithArray::to_vec: filter_map over i in from..len, the Some slots kept
RECURSIVE to_vec_from(_, _)
to_vec_from(q, i) ==
    IF i >= q.len THEN <<>>
    ELSE q.queue[((q.front + i) % cap) + 1] \o to_vec_from(q, i + 1)

QueueWithArray_to_vec(q) == to_vec_from(q, 0)

\* ------------------------------------------------------------------ MaxHeap
\* usize::MAX
UsizeMax == 2^UsizeBits - 1

\* the result of a usize operation that overflowed where overflow is checked
Overflow == -1

\* a - b on usize: with `checked` (a debug build) an overflow panics, without
\* (a release build) the result wraps
usize_sub(a, b, checked) ==
    IF a >= b THEN a - b
    ELSE IF checked THEN Overflow
    ELSE a + (UsizeMax + 1) - b

\* a + b on usize
usize_add(a, b, checked) ==
    IF a + b <= UsizeMax THEN a + b
    ELSE IF checked THEN Overflow
    ELSE (a + b) % (UsizeMax + 1)

\* fn left: 2 * i + 1
left(i, checked) == usize_add(2 * i, 1, checked)

\* fn right: 2 * i + 2
right(i, checked) == usize_add(2 * i, 2, checked)

\* fn parent: (i - 1) / 2
parent(i, checked) ==
    LET d == usize_sub(i, 1, checked)
    IN IF d = Overflow THEN Overflow ELSE d \div 2

\* what a function on the Vec returns: the Vec after it and whether it panicked
VRet(v) == [v |-> v, panic |-> FALSE]
VPanic(v) == [v |-> v, panic |-> TRUE]

\* <[T]>::swap, indices from 0
swap(v, i, j) == [v EXCEPT ![i + 1] = v[j + 1], ![j + 1] = v[i + 1]]

\* sift_up that stops after the first swap
sift_up_once(v, i) ==
    IF i = 0 THEN v
    ELSE LET p == parent(i, TRUE)
         IN IF v[i + 1] <= v[p + 1] THEN v ELSE swap(v, i, p)

\* fn sift_up with the cmp of sift_up_max, a <= b; i > 0 where parent is called
RECURSIVE sift_up(_, _)
sift_up(v, i) ==
    IF i = 0 THEN v
    ELSE LET p == parent(i, TRUE)
         IN IF v[i + 1] <= v[p + 1] THEN v
            ELSE sift_up(swap(v, i, p), p)

\* fn sift_down with the cmp of sift_down_max, a > b.  v[ext] is read only
\* after `l < v.len()` or `r < v.len()` held; an index at or past v.len()
\* panics
RECURSIVE sift_down(_, _, _)
sift_down(v, i, checked) ==
    LET l == left(i, checked)
        r == right(i, checked)
    IN IF l = Overflow \/ r = Overflow THEN VPanic(v)
       ELSE IF l < Len(v) /\ i >= Len(v) THEN VPanic(v)
       ELSE LET ext1 == IF l < Len(v) /\ v[l + 1] > v[i + 1] THEN l ELSE i
            IN IF r < Len(v) /\ ext1 >= Len(v) THEN VPanic(v)
               ELSE LET ext == IF r < Len(v) /\ v[r + 1] > v[ext1 + 1] THEN r ELSE ext1
                    IN IF ext = i THEN VRet(v)
                       ELSE sift_down(swap(v, i, ext), ext, checked)

\* the loop of MaxHeap::from_vec: for i in (0..=top).rev()
RECURSIVE from_vec_loop(_, _, _)
from_vec_loop(v, i, checked) ==
    LET r == sift_down(v, i, checked)
    IN IF r.panic THEN r
       ELSE IF i = 0 THEN r
       ELSE from_vec_loop(r.v, i - 1, checked)

\* MaxHeap::from_vec (From<Vec<T>> and From<[T; N]> call it)
MaxHeap_from_vec(v, checked) ==
    LET final == usize_sub(Len(v), 1, checked)
        top == IF final = Overflow THEN Overflow ELSE parent(final, checked)
    IN IF top = Overflow THEN VPanic(v)
       ELSE from_vec_loop(v, top, checked)

\* MaxHeap::peek
MaxHeap_peek(v) == IF v = <<>> THEN None ELSE Some(v[1])

\* MaxHeap::push
MaxHeap_push(v, val) ==
    LET v1 == Append(v, val)
        len == Len(v1)
    IN sift_up(v1, len - 1)

\* Vec::swap_remove(0): the last element takes the place of the first
swap_remove_0(v) ==
    IF Len(v) = 1 THEN <<>>
    ELSE [i \in 1..(Len(v) - 1) |-> IF i = 1 THEN v[Len(v)] ELSE v[i]]

\* MaxHeap::pop: the Vec after it and the Option it returns
MaxHeap_pop(v) ==
    IF v = <<>> THEN [v |-> v, ret |-> None, panic |-> FALSE]
    ELSE LET r == sift_down(swap_remove_0(v), 0, TRUE)
         IN [v |-> r.v, ret |-> Some(v[1]), panic |-> r.panic]

\* ------------------------------------------------------------------ top_k_heap
\* std's BinaryHeap<Reverse<T>> is a priority queue whose top is the smallest
\* element: it is the list of its elements in ascending order

\* BinaryHeap::push(Reverse(x))
BinaryHeap_push(heap, x) ==
    SelectSeq(heap, LAMBDA y : y <= x) \o <<x>> \o SelectSeq(heap, LAMBDA y : y > x)

\* BinaryHeap::peek
BinaryHeap_peek(heap) == IF heap = <<>> THEN None ELSE Some(Head(heap))

\* BinaryHeap::pop: the heap after it
BinaryHeap_pop(heap) == IF heap = <<>> THEN heap ELSE Tail(heap)

\* what top_k_heap returns: the heap, or a panic
HRet(heap) == [heap |-> heap, panic |-> FALSE]
HPanic(heap) == [heap |-> heap, panic |-> TRUE]

\* the loop of top_k_heap over the rest of nums; heap.peek().unwrap() panics
\* on the empty heap
RECURSIVE top_k_heap_loop(_, _, _)
top_k_heap_loop(nums, k, heap) ==
    IF nums = <<>> THEN HRet(heap)
    ELSE LET num == Head(nums)
         IN IF k > Len(heap)
            THEN top_k_heap_loop(Tail(nums), k, BinaryHeap_push(heap, num))
            ELSE IF BinaryHeap_peek(heap) = None THEN HPanic(heap)
            ELSE IF num > BinaryHeap_peek(heap)[1]
            THEN top_k_heap_loop(Tail(nums), k,
                                 BinaryHeap_push(BinaryHeap_pop(heap), num))
            ELSE top_k_heap_loop(Tail(nums), k, heap)

\* fn top_k_heap
top_k_heap(nums, k) == top_k_heap_loop(nums, k, <<>>)

\* ------------------------------------------------------------------ LinkedList
\* a LinkedList<T> value; head and tail are Node cells of the heap or NIL
LinkedList(head, tail, len) == [head |-> head, tail |-> tail, len |-> len]

\* LinkedList::new
LinkedList_new == LinkedList(NIL, NIL, 0)

\* what a method of LinkedList returns: the Node cells and the list after it,
\* its return value, and whether it panicked
LRet(h, l, ret) == [heap |-> h, list |-> l, ret |-> ret, panic |-> FALSE]
LPanic(h, l) == [heap |-> h, list |-> l, ret |-> None, panic |-> TRUE]

\* Box::from_raw(node) dropped: the cell is freed
Free(h, node) == [n \in (DOMAIN h) \ {node} |-> h[n]]

\* LinkedList::new_node: the contents of the new cell
new_node(l, t, is_front) ==
    [prev |-> IF is_front THEN NIL ELSE l.tail,
     next |-> IF is_front THEN l.head ELSE NIL,
     elem |-> t]

\* push that does not link the old head back to the new cell
LinkedList_push_no_back_link(h, l, t, is_front) ==
    LET node_ptr == Alloc(h)
        h1 == h @@ (node_ptr :> new_node(l, t, is_front))
    IN IF is_front
       THEN IF l.head = NIL
            THEN LRet(h1, LinkedList(node_ptr, node_ptr, l.len + 1), None)
            ELSE LRet(h1, LinkedList(node_ptr, l.tail, l.len + 1), None)
       ELSE IF l.tail = NIL
            THEN LRet(h1, LinkedList(node_ptr, node_ptr, l.len + 1), None)
            ELSE LRet([h1 EXCEPT ![l.tail].next = node_ptr],
                      LinkedList(l.head, node_ptr, l.len + 1), None)

\* LinkedList::push
LinkedList_push(h, l, t, is_front) ==
    LET node_ptr == Alloc(h)
        h1 == h @@ (node_ptr :> new_node(l, t, is_front))
    IN IF is_front
       THEN IF l.head = NIL
            THEN LRet(h1, LinkedList(node_ptr, node_ptr, l.len + 1), None)
            ELSE LRet([h1 EXCEPT ![l.head].prev = node_ptr],
                      LinkedList(node_ptr, l.tail, l.len + 1), None)
       ELSE IF l.tail = NIL
            THEN LRet(h1, LinkedList(node_ptr, node_ptr, l.len + 1), None)
            ELSE LRet([h1 EXCEPT ![l.tail].next = node_ptr],
                      LinkedList(l.head, node_ptr, l.len + 1), None)

\* LinkedList::pop
LinkedList_pop(h, l, is_front) ==
    IF is_front
    THEN IF l.head = NIL THEN LRet(h, l, None)
         ELSE LET node == h[l.head]
                  h1 == Free(h, l.head)
              IN IF node.next # NIL
                 THEN LRet([h1 EXCEPT ![node.next].prev = NIL],
                           LinkedList(node.next, l.tail, l.len - 1), Some(node.elem))
                 ELSE LRet(h1, LinkedList(NIL, NIL, l.len - 1), Some(node.elem))
    ELSE IF l.tail = NIL THEN LRet(h, l, None)
         ELSE LET node == h[l.tail]
                  h1 == Free(h, l.tail)
              IN IF node.prev # NIL
                 THEN LRet([h1 EXCEPT ![node.prev].next = NIL],
                           LinkedList(l.head, node.prev, l.len - 1), Some(node.elem))
                 ELSE LRet(h1, LinkedList(NIL, NIL, l.len - 1), Some(node.elem))

\* LinkedList::front
LinkedList_front(h, l) == IF l.head = NIL THEN None ELSE Some(h[l.head].elem)

\* LinkedList::back
LinkedList_back(h, l) == IF l.tail = NIL THEN None ELSE Some(h[l.tail].elem)

\* LinkedList::len
LinkedList_len(l) == l.len

\* the loop of LinkedList::get_node: `steps` more links are followed;
\* current.unwrap() panics on None
RECURSIVE get_node_loop(_, _, _, _)
get_node_loop(h, l, current, steps) ==
    IF steps = 0 THEN LRet(h, l, current)
    ELSE IF current = NIL THEN LPanic(h, l)
    ELSE get_node_loop(h, l, h[current].next, steps - 1)

\* LinkedList::get_node: ret is the cell or NIL
LinkedList_get_node(h, l, index) ==
    IF index >= l.len THEN LRet(h, l, NIL)
    ELSE get_node_loop(h, l, l.head, index)

\* LinkedList::get
LinkedList_get(h, l, index) ==
    LET r == LinkedList_get_node(h, l, index)
    IN IF r.panic THEN r
       ELSE LRet(h, l, IF r.ret = NIL THEN None ELSE Some(h[r.ret].elem))

\* Iter::next called until it returns None, the elements collected
RECURSIVE Iter_collect(_, _)
Iter_collect(h, current) ==
    IF current = NIL THEN <<>>
    ELSE <<h[current].elem>> \o Iter_collect(h, h[current].next)

\* LinkedList::iter, collected
LinkedList_iter(h, l) == Iter_collect(h, l.head)

\* the loop of LinkedList::reverse: next and prev of every cell from
\* `current` on are exchanged
RECURSIVE reverse_loop(_, _)
reverse_loop(h, current) ==
    IF current = NIL THEN h
    ELSE LET node_next == h[current].next
         IN reverse_loop([h EXCEPT ![current].next = h[current].prev,
                                   ![current].prev = h[current].next], node_next)

\* reverse without the exchange of head and tail
LinkedList_reverse_keeps_ends(h, l) ==
    IF l.len <= 1 THEN LRet(h, l, None)
    ELSE LRet(reverse_loop(h, l.head), l, None)

\* LinkedList::reverse
LinkedList_reverse(h, l) ==
    IF l.len <= 1 THEN LRet(h, l, None)
    ELSE LRet(reverse_loop(h, l.head), LinkedList(l.tail, l.head, l.len), None)

\* what append leaves: the heap, self and other
ARet(h, l, other) == [heap |-> h, list |-> l, other |-> other]

\* append that takes the cells of other and leaves its tail and len
LinkedList_append_leaves_other(h, l, other) ==
    IF l.tail = NIL THEN ARet(h, other, l)
    ELSE IF other.head # NIL
         THEN ARet([h EXCEPT ![l.tail].next = other.head,
                             ![other.head].prev = l.tail],
                   LinkedList(l.head, other.tail, l.len + other.len),
                   LinkedList(NIL, other.tail, other.len))
         ELSE ARet(h, l, other)

\* LinkedList::append: mem::swap of the two lists when self has no tail,
\* else the cells of other are linked behind the tail of self
LinkedList_append(h, l, other) ==
    IF l.tail = NIL THEN ARet(h, other, l)
    ELSE IF other.head # NIL
         THEN ARet([h EXCEPT ![l.tail].next = other.head,
                             ![other.head].prev = l.tail],
                   LinkedList(l.head, other.tail, l.len + other.len),
                   LinkedList(NIL, NIL, 0))
         ELSE ARet(h, l, other)

\* ------------------------------------------------------------------ actions
\* AvlTree::insert
AvlInsert(val) ==
    /\ ~panicked
    /\ LET r == insert_recursive(avlHeap, avlRoot, val)
       IN /\ avlHeap' = r.heap
          /\ avlRoot' = (IF r.panic THEN avlRoot ELSE r.node)
          /\ panicked' = r.panic
    /\ avlInserted' = avlInserted \cup {val}
    /\ last' = Call("AvlTree::insert", val, NIL, <<>>, val \in Values(avlHeap, avlRoot))
    /\ UNCHANGED <<bstVars, btVars, copyVars, queueVars, heapVars, topVars, listVars>>

\* AvlTree::search
AvlSearch(target) ==
    /\ ~panicked
    /\ last' = Call("AvlTree::search", target,
                    AvlTree_search(avlHeap, avlRoot, target), <<>>, FALSE)
    /\ UNCHANGED <<avlVars, bstVars, btVars, copyVars, queueVars, heapVars, topVars, listVars, panicked>>

\* AvlTree::to_tree followed by BinaryTree::to_vec
AvlToVec ==
    /\ ~panicked
    /\ last' = Call("AvlTree::to_tree", 0, NIL, AvlToTreeToVec(avlHeap, avlRoot), FALSE)
    /\ UNCHANGED <<avlVars, bstVars, btVars, copyVars, queueVars, heapVars, topVars, listVars, panicked>>

\* the link that held `node` is given what a rotation of `node` returned,
\* as fn rotate does with `node.borrow_mut().left = left_rotate(left)`; the
\* link of the root is AvlTree::root.  Nothing is assigned after a panic.
Relink(node, r) ==
    /\ panicked' = r.panic
    /\ avlRoot' = (IF ~r.panic /\ node = avlRoot THEN r.node ELSE avlRoot)
    /\ avlHeap' = IF r.panic \/ node = avlRoot THEN r.heap
                  ELSE [n \in DOMAIN r.heap |->
                           IF n \in DOMAIN avlHeap /\ avlHeap[n].left = node
                           THEN [r.heap[n] EXCEPT !.left = r.node]
                           ELSE IF n \in DOMAIN avlHeap /\ avlHeap[n].right = node
                           THEN [r.heap[n] EXCEPT !.right = r.node]
                           ELSE r.heap[n]]

\* fn right_rotate called on the subtree at `node`
AvlRightRotate(node) ==
    /\ ~panicked
    /\ LET r == right_rotate(avlHeap, node)
       IN /\ Relink(node, r)
          /\ last' = Call("right_rotate", node, r.node, <<>>, r.panic)
    /\ UNCHANGED <<avlInserted, bstVars, btVars, copyVars, queueVars, heapVars, topVars, listVars>>

\* fn left_rotate called on the subtree at `node`
AvlLeftRotate(node) ==
    /\ ~panicked
    /\ LET r == left_rotate(avlHeap, node)
       IN /\ Relink(node, r)
          /\ last' = Call("left_rotate", node, r.node, <<>>, r.panic)
    /\ UNCHANGED <<avlInserted, bstVars, btVars, copyVars, queueVars, heapVars, topVars, listVars>>

\* fn rotate called on the subtree at `node`; `vec` is the in-order sequence
\* of that subtree before the call
AvlRotate(node) ==
    /\ ~panicked
    /\ LET r == rotate(avlHeap, node)
           t == to_tree(avlHeap, node)
       IN /\ Relink(node, r)
          /\ last' = Call("rotate", node, r.node, in_order(t.heap, t.node), r.panic)
    /\ UNCHANGED <<avlInserted, bstVars, btVars, copyVars, queueVars, heapVars, topVars, listVars>>

\* AvlTree::insert of the successor of the values inserted so far
AvlInsertNext ==
    /\ Cardinality(avlInserted) < AscMaxN
    /\ AvlInsert(Cardinality(avlInserted) + 1)

\* AvlTree::to_tree, the BinaryTree it returns kept
AvlToTree ==
    /\ ~panicked
    /\ LET t == to_tree(avlHeap, avlRoot)
       IN /\ copyHeap' = t.heap
          /\ copyRoot' = t.node
          /\ last' = Call("AvlTree::to_tree", 0, t.node, in_order(t.heap, t.node), FALSE)
    /\ UNCHANGED <<avlVars, bstVars, btVars, queueVars, heapVars, topVars, listVars, panicked>>

\* BinarySearchTree::insert
BstInsert(val) ==
    /\ ~panicked
    /\ LET r == BinarySearchTree_insert(bstHeap, bstRoot, val)
       IN /\ bstHeap' = r.heap
          /\ bstRoot' = (IF r.panic THEN bstRoot ELSE r.node)
          /\ panicked' = r.panic
    /\ bstPresent' = bstPresent \cup {val}
    /\ last' = Call("BinarySearchTree::insert", val, NIL, <<>>,
                    val \in Values(bstHeap, bstRoot))
    /\ UNCHANGED <<avlVars, btVars, copyVars, queueVars, heapVars, topVars, listVars>>

\* BinarySearchTree::remove
BstRemove(val) ==
    /\ ~panicked
    /\ LET r == BinarySearchTree_remove(bstHeap, bstRoot, val)
       IN /\ bstHeap' = r.heap
          /\ bstRoot' = (IF r.panic THEN bstRoot ELSE r.node)
          /\ panicked' = r.panic
    /\ bstPresent' = bstPresent \ {val}
    /\ last' = Call("BinarySearchTree::remove", val,
                    descend(bstHeap, bstRoot, NIL, val).current, <<>>,
                    val \in Values(bstHeap, bstRoot))
    /\ UNCHANGED <<avlVars, btVars, copyVars, queueVars, heapVars, topVars, listVars>>

\* BinarySearchTree::search
BstSearch(target) ==
    /\ ~panicked
    /\ last' = Call("BinarySearchTree::search", target,
                    BinarySearchTree_search(bstHeap, bstRoot, target), <<>>, FALSE)
    /\ UNCHANGED <<avlVars, bstVars, btVars, copyVars, queueVars, heapVars, topVars, listVars, panicked>>

\* BinarySearchTree::to_vec
BstToVec ==
    /\ ~panicked
    /\ last' = Call("BinarySearchTree::to_vec", 0, NIL, in_order(bstHeap, bstRoot), FALSE)
    /\ UNCHANGED <<avlVars, bstVars, btVars, copyVars, queueVars, heapVars, topVars, listVars, panicked>>

\* BinaryTree::insert
BtInsert(val) ==
    /\ ~panicked
    /\ Cardinality(DOMAIN btHeap) < BtMaxNodes
    /\ LET r == BinaryTree_insert(btHeap, btRoot, val)
       IN /\ btHeap' = r.heap
          /\ btRoot' = r.node
    /\ btCreated' = Append(btCreated, val)
    /\ last' = Call("BinaryTree::insert", val, NIL, <<>>, FALSE)
    /\ UNCHANGED <<avlVars, bstVars, copyVars, queueVars, heapVars, topVars, listVars, panicked>>

\* BinaryTree::insert on a tree that nothing else changes
BtInsertOnly(val) ==
    /\ ~panicked
    /\ Cardinality(DOMAIN btHeap) < CompleteMaxNodes
    /\ LET r == BinaryTree_insert(btHeap, btRoot, val)
       IN /\ btHeap' = r.heap
          /\ btRoot' = r.node
    /\ btCreated' = Append(btCreated, val)
    /\ last' = Call("BinaryTree::insert", val, NIL, <<>>, FALSE)
    /\ UNCHANGED <<avlVars, bstVars, copyVars, queueVars, heapVars, topVars, listVars, panicked>>

\* a tree built by hand through the public fields of TreeNode: a new leaf
\* is put into an empty child slot of `above`
BtAttach(above, toLeft, val) ==
    /\ ~panicked
    /\ Cardinality(DOMAIN btHeap) < BtMaxNodes
    /\ above \in DOMAIN btHeap
    /\ IF toLeft THEN btHeap[above].left = NIL ELSE btHeap[above].right = NIL
    /\ LET n == Alloc(btHeap)
           h1 == btHeap @@ (n :> TreeNode_new(val))
       IN btHeap' = IF toLeft THEN [h1 EXCEPT ![above].left = n]
                    ELSE [h1 EXCEPT ![above].right = n]
    /\ btCreated' = Append(btCreated, val)
    /\ last' = Call("TreeNode::new_node_rc", val, NIL, <<>>, FALSE)
    /\ UNCHANGED <<avlVars, bstVars, btRoot, copyVars, queueVars, heapVars, topVars, listVars, panicked>>

\* bt::contains_bfs
BtContainsBfs(val) ==
    /\ ~panicked
    /\ last' = Call("bt::contains_bfs", val, NIL, <<>>, contains_bfs(btHeap, btRoot, val))
    /\ UNCHANGED <<avlVars, bstVars, btVars, copyVars, queueVars, heapVars, topVars, listVars, panicked>>

\* bt::contains_dfs
BtContainsDfs(val) ==
    /\ ~panicked
    /\ last' = Call("bt::contains_dfs", val, NIL, <<>>, contains_dfs(btHeap, btRoot, val))
    /\ UNCHANGED <<avlVars, bstVars, btVars, copyVars, queueVars, heapVars, topVars, listVars, panicked>>

\* bt::contains
BtContains(val) ==
    /\ ~panicked
    /\ last' = Call("bt::contains", val, NIL, <<>>, contains(btHeap, btRoot, val))
    /\ UNCHANGED <<avlVars, bstVars, btVars, copyVars, queueVars, heapVars, topVars, listVars, panicked>>

\* bt::pre_order
BtPreOrder ==
    /\ ~panicked
    /\ last' = Call("bt::pre_order", 0, NIL, pre_order(btHeap, btRoot), FALSE)
    /\ UNCHANGED <<avlVars, bstVars, btVars, copyVars, queueVars, heapVars, topVars, listVars, panicked>>

\* bt::in_order
BtInOrder ==
    /\ ~panicked
    /\ last' = Call("bt::in_order", 0, NIL, in_order(btHeap, btRoot), FALSE)
    /\ UNCHANGED <<avlVars, bstVars, btVars, copyVars, queueVars, heapVars, topVars, listVars, panicked>>

\* bt::post_order
BtPostOrder ==
    /\ ~panicked
    /\ last' = Call("bt::post_order", 0, NIL, post_order(btHeap, btRoot), FALSE)
    /\ UNCHANGED <<avlVars, bstVars, btVars, copyVars, queueVars, heapVars, topVars, listVars, panicked>>

\* the QueueWithArray of the state
Q == QueueWithArray(qQueue, qFront, qLen)

\* QueueWithArray::push
QueuePush(elem) ==
    /\ ~panicked
    /\ LET r == QueueWithArray_push(Q, elem)
       IN /\ qQueue' = r.q.queue
          /\ qFront' = r.q.front
          /\ qLen' = r.q.len
          /\ panicked' = r.panic
    /\ qFifo' = (IF Len(qFifo) < QueueCap THEN Append(qFifo, elem) ELSE qFifo)
    /\ last' = Call("QueueWithArray::push", elem, NIL, None, FALSE)
    /\ UNCHANGED <<avlVars, bstVars, btVars, copyVars, heapVars, topVars, listVars>>

\* QueueWithArray::pop
QueuePop ==
    /\ ~panicked
    /\ LET r == QueueWithArray_pop(Q)
       IN /\ qQueue' = r.q.queue
          /\ qFront' = r.q.front
          /\ qLen' = r.q.len
          /\ last' = Call("QueueWithArray::pop", 0, NIL, r.ret, FALSE)
    /\ qFifo' = (IF qFifo = <<>> THEN qFifo ELSE Tail(qFifo))
    /\ UNCHANGED <<avlVars, bstVars, btVars, copyVars, heapVars, topVars, listVars, panicked>>

\* QueueWithArray::peek
QueuePeek ==
    /\ ~panicked
    /\ last' = Call("QueueWithArray::peek", 0, NIL, QueueWithArray_peek(Q), FALSE)
    /\ UNCHANGED <<avlVars, bstVars, btVars, copyVars, queueVars, heapVars, topVars, listVars, panicked>>

\* QueueWithArray::tail
QueueTail ==
    /\ ~panicked
    /\ LET r == QueueWithArray_tail(Q)
       IN /\ panicked' = r.panic
          /\ last' = Call("QueueWithArray::tail", 0, NIL, r.ret, FALSE)
    /\ UNCHANGED <<avlVars, bstVars, btVars, copyVars, queueVars, heapVars, topVars, listVars>>

\* QueueWithArray::len and QueueWithArray::to_vec
QueueToVec ==
    /\ ~panicked
    /\ last' = Call("QueueWithArray::to_vec", QueueWithArray_len(Q), NIL,
                    QueueWithArray_to_vec(Q), FALSE)
    /\ UNCHANGED <<avlVars, bstVars, btVars, copyVars, queueVars, heapVars, topVars, listVars, panicked>>

\* MaxHeap::push
HeapPush(val) ==
    /\ ~panicked
    /\ Len(maxHeap) < HeapMaxLen
    /\ maxHeap' = MaxHeap_push(maxHeap, val)
    /\ last' = Call("MaxHeap::push", val, NIL, None, FALSE)
    /\ UNCHANGED <<avlVars, bstVars, btVars, copyVars, queueVars, topVars, listVars, panicked>>

\* MaxHeap::pop
HeapPop ==
    /\ ~panicked
    /\ LET r == MaxHeap_pop(maxHeap)
       IN /\ maxHeap' = r.v
          /\ panicked' = r.panic
          /\ last' = Call("MaxHeap::pop", 0, NIL, r.ret, FALSE)
    /\ UNCHANGED <<avlVars, bstVars, btVars, copyVars, queueVars, topVars, listVars>>

\* MaxHeap::peek
HeapPeek ==
    /\ ~panicked
    /\ last' = Call("MaxHeap::peek", 0, NIL, MaxHeap_peek(maxHeap), FALSE)
    /\ UNCHANGED <<avlVars, bstVars, btVars, copyVars, queueVars, heapVars, topVars, listVars, panicked>>

\* MaxHeap::from_vec(v), in a build with (`checked`) or without overflow
\* checks; after a panic there is no new heap
HeapFromVec(v, checked) ==
    /\ ~panicked
    /\ LET r == MaxHeap_from_vec(v, checked)
       IN /\ maxHeap' = (IF r.panic THEN maxHeap ELSE r.v)
          /\ panicked' = r.panic
    /\ last' = Call("MaxHeap::from_vec", 0, NIL, v, checked)
    /\ UNCHANGED <<avlVars, bstVars, btVars, copyVars, queueVars, topVars, listVars>>

\* top_k_heap(nums, k); after a panic there is no heap
TopK(nums, k) ==
    /\ ~panicked
    /\ LET r == top_k_heap(nums, k)
       IN /\ topHeap' = (IF r.panic THEN topHeap ELSE r.heap)
          /\ panicked' = r.panic
    /\ last' = Call("top_k_heap", k, NIL, nums, FALSE)
    /\ UNCHANGED <<avlVars, bstVars, btVars, copyVars, queueVars, heapVars, listVars>>

\* BinaryHeap::pop on the heap top_k_heap returned
TopKPop ==
    /\ ~panicked
    /\ topHeap' = BinaryHeap_pop(topHeap)
    /\ last' = Call("BinaryHeap::pop", 0, NIL, BinaryHeap_peek(topHeap), FALSE)
    /\ UNCHANGED <<avlVars, bstVars, btVars, copyVars, queueVars, heapVars, listVars,
                   panicked>>

\* LinkedList::push_front and LinkedList::push_back on llA
ListPush(t, is_front) ==
    /\ ~panicked
    /\ Len(llSeqA) < ListMaxLen
    /\ LET r == LinkedList_push(llHeap, llA, t, is_front)
       IN /\ llHeap' = r.heap
          /\ llA' = r.list
    /\ llSeqA' = (IF is_front THEN <<t>> \o llSeqA ELSE Append(llSeqA, t))
    /\ last' = Call(IF is_front THEN "LinkedList::push_front"
                    ELSE "LinkedList::push_back", t, NIL, None, FALSE)
    /\ UNCHANGED <<avlVars, bstVars, btVars, copyVars, queueVars, heapVars, topVars,
                   llB, llSeqB, panicked>>

\* LinkedList::pop_front and LinkedList::pop_back on llA
ListPop(is_front) ==
    /\ ~panicked
    /\ LET r == LinkedList_pop(llHeap, llA, is_front)
       IN /\ llHeap' = r.heap
          /\ llA' = r.list
          /\ last' = Call(IF is_front THEN "LinkedList::pop_front"
                          ELSE "LinkedList::pop_back", 0, NIL, r.ret, FALSE)
    /\ llSeqA' = (IF llSeqA = <<>> THEN llSeqA
                  ELSE IF is_front THEN Tail(llSeqA)
                  ELSE SubSeq(llSeqA, 1, Len(llSeqA) - 1))
    /\ UNCHANGED <<avlVars, bstVars, btVars, copyVars, queueVars, heapVars, topVars,
                   llB, llSeqB, panicked>>

\* LinkedList::front and LinkedList::back on llA
ListEnd(is_front) ==
    /\ ~panicked
    /\ last' = (IF is_front
                THEN Call("LinkedList::front", 0, NIL, LinkedList_front(llHeap, llA), FALSE)
                ELSE Call("LinkedList::back", 0, NIL, LinkedList_back(llHeap, llA), FALSE))
    /\ UNCHANGED <<avlVars, bstVars, btVars, copyVars, queueVars, heapVars, topVars,
                   listVars, panicked>>

\* LinkedList::get on llA
ListGet(index) ==
    /\ ~panicked
    /\ LET r == LinkedList_get(llHeap, llA, index)
       IN /\ panicked' = r.panic
          /\ last' = Call("LinkedList::get", index, NIL, r.ret, FALSE)
    /\ UNCHANGED <<avlVars, bstVars, btVars, copyVars, queueVars, heapVars, topVars,
                   listVars>>

\* LinkedList::len and LinkedList::iter on llA
ListIter ==
    /\ ~panicked
    /\ last' = Call("LinkedList::iter", LinkedList_len(llA), NIL,
                    LinkedList_iter(llHeap, llA), FALSE)
    /\ UNCHANGED <<avlVars, bstVars, btVars, copyVars, queueVars, heapVars, topVars,
                   listVars, panicked>>

\* LinkedList::reverse on llA
ListReverse ==
    /\ ~panicked
    /\ LET r == LinkedList_reverse(llHeap, llA)
       IN /\ llHeap' = r.heap
          /\ llA' = r.list
    /\ llSeqA' = [i \in 1..Len(llSeqA) |-> llSeqA[Len(llSeqA) + 1 - i]]
    /\ last' = Call("LinkedList::reverse", 0, NIL, None, FALSE)
    /\ UNCHANGED <<avlVars, bstVars, btVars, copyVars, queueVars, heapVars, topVars,
                   llB, llSeqB, panicked>>

\* LinkedList::push_back on llB
ListPushB(t) ==
    /\ ~panicked
    /\ Cardinality(DOMAIN llHeap) < AppendMaxCells
    /\ LET r == LinkedList_push(llHeap, llB, t, FALSE)
       IN /\ llHeap' = r.heap
          /\ llB' = r.list
    /\ llSeqB' = Append(llSeqB, t)
    /\ last' = Call("LinkedList::push_back", t, NIL, None, TRUE)
    /\ UNCHANGED <<avlVars, bstVars, btVars, copyVars, queueVars, heapVars, topVars,
                   llA, llSeqA, panicked>>

\* llA.append(&mut llB)
ListAppend ==
    /\ ~panicked
    /\ LET r == LinkedList_append(llHeap, llA, llB)
       IN /\ llHeap' = r.heap
          /\ llA' = r.list
          /\ llB' = r.other
    /\ llSeqA' = llSeqA \o llSeqB
    /\ llSeqB' = <<>>
    /\ last' = Call("LinkedList::append", 0, NIL, None, FALSE)
    /\ UNCHANGED <<avlVars, bstVars, btVars, copyVars, queueVars, heapVars, topVars,
                   panicked>>

Init ==
    /\ avlHeap = EmptyHeap
    /\ avlRoot = NIL
    /\ avlInserted = {}
    /\ bstHeap = EmptyHeap
    /\ bstRoot = NIL
    /\ bstPresent = {}
    /\ btHeap = EmptyHeap
    /\ btRoot = NIL
    /\ btCreated = <<>>
    /\ copyHeap = EmptyHeap
    /\ copyRoot = NIL
    /\ qQueue = QueueWithArray_new.queue
    /\ qFront = QueueWithArray_new.front
    /\ qLen = QueueWithArray_new.len
    /\ qFifo = <<>>
    /\ maxHeap = <<>>
    /\ topHeap = <<>>
    /\ llHeap = EmptyHeap
    /\ llA = LinkedList_new
    /\ llB = LinkedList_new
    /\ llSeqA = <<>>
    /\ llSeqB = <<>>
    /\ last = Call("new", 0, NIL, <<>>, FALSE)
    /\ panicked = FALSE

NextAvl ==
    \/ \E val \in AvlValues : AvlInsert(val)
    \/ \E target \in AvlValues : AvlSearch(target)
    \/ AvlToVec

SpecAvl == Init /\ [][NextAvl]_vars

\* a BinarySearchTree that is only inserted into
NextBstInsert ==
    \/ \E val \in BstValues : BstInsert(val)
    \/ \E target \in BstValues : BstSearch(target)
    \/ BstToVec

SpecBstInsert == Init /\ [][NextBstInsert]_vars

NextBst ==
    \/ \E val \in BstValues : BstInsert(val)
    \/ \E val \in BstValues : BstRemove(val)
    \/ \E target \in BstValues : BstSearch(target)
    \/ BstToVec

SpecBst == Init /\ [][NextBst]_vars

\* an AvlTree and a BinarySearchTree that are only inserted into
NextInsert ==
    \/ \E val \in InsertValues : AvlInsert(val)
    \/ \E val \in InsertValues : BstInsert(val)

SpecInsert == Init /\ [][NextInsert]_vars

\* the values bt::contains* is asked for: 0 is never stored
BtTargets == 0..BtMaxVal

NextBt ==
    \/ \E val \in BtValues : BtInsert(val)
    \/ \E above \in DOMAIN btHeap, toLeft \in BOOLEAN, val \in BtValues :
           BtAttach(above, toLeft, val)
    \/ \E val \in BtTargets : BtContainsBfs(val)
    \/ \E val \in BtTargets : BtContainsDfs(val)
    \/ \E val \in BtTargets : BtContains(val)

SpecBt == Init /\ [][NextBt]_vars

\* a QueueWithArray that is pushed into, popped from and read, without tail
NextQueue ==
    \/ \E elem \in QueueValues : QueuePush(elem)
    \/ QueuePop
    \/ QueuePeek
    \/ QueueToVec

SpecQueue == Init /\ [][NextQueue]_vars

\* a QueueWithArray with tail called as well
NextQueueTail ==
    \/ \E elem \in QueueValues : QueuePush(elem)
    \/ QueuePop
    \/ QueueTail

SpecQueueTail == Init /\ [][NextQueueTail]_vars

\* a MaxHeap that starts empty and is pushed into, popped from and peeked at
NextMaxHeap ==
    \/ \E val \in HeapValues : HeapPush(val)
    \/ HeapPop
    \/ HeapPeek

SpecMaxHeap == Init /\ [][NextMaxHeap]_vars

\* the lists MaxHeap::from_vec is called with
HeapInputs == UNION {[1..n -> HeapValues] : n \in 0..FromVecMaxLen}

\* MaxHeaps built by from_vec, and popped from
NextFromVec ==
    \/ \E v \in HeapInputs, checked \in BOOLEAN : HeapFromVec(v, checked)
    \/ HeapPop

SpecFromVec == Init /\ [][NextFromVec]_vars

\* a LinkedList that is pushed into and popped from at both ends, and read
NextList ==
    \/ \E t \in ListValues, is_front \in BOOLEAN : ListPush(t, is_front)
    \/ \E is_front \in BOOLEAN : ListPop(is_front)
    \/ \E is_front \in BOOLEAN : ListEnd(is_front)
    \/ \E index \in 0..ListMaxLen : ListGet(index)
    \/ ListIter

SpecList == Init /\ [][NextList]_vars

\* a LinkedList that is pushed into, popped from and reversed
NextListReverse ==
    \/ \E t \in ListValues, is_front \in BOOLEAN : ListPush(t, is_front)
    \/ \E is_front \in BOOLEAN : ListPop(is_front)
    \/ ListReverse
    \/ ListIter

SpecListReverse == Init /\ [][NextListReverse]_vars

\* two LinkedLists of at most AppendMaxCells cells together, the second
\* appended to the first
NextListAppend ==
    \/ \E t \in ListValues : Cardinality(DOMAIN llHeap) < AppendMaxCells /\ ListPush(t, FALSE)
    \/ \E t \in ListValues : ListPushB(t)
    \/ ListPop(TRUE)
    \/ ListAppend

SpecListAppend == Init /\ [][NextListAppend]_vars

\* the lists top_k_heap is called with
TopKInputs == UNION {[1..n -> TopKValues] : n \in 0..TopKMaxLen}

\* heaps returned by top_k_heap, and popped from
NextTopK ==
    \/ \E nums \in TopKInputs, k \in 0..TopKMaxK : TopK(nums, k)
    \/ TopKPop

SpecTopK == Init /\ [][NextTopK]_vars

\* an AvlTree that is inserted into and whose subtrees are rotated by calls
\* of right_rotate and left_rotate, whatever their children
NextRotate ==
    \/ \E val \in RotateValues : AvlInsert(val)
    \/ \E node \in Reachable(avlHeap, avlRoot) : AvlRightRotate(node)
    \/ \E node \in Reachable(avlHeap, avlRoot) : AvlLeftRotate(node)

SpecRotate == Init /\ [][NextRotate]_vars

\* an AvlTree that 1, 2, .. are inserted into in this order and whose
\* subtrees are turned by right_rotate and left_rotate into any shape, and
\* fn rotate called on any of its subtrees
NextRebalance ==
    \/ \E val \in 1..RebalanceMaxVal :
           val = Cardinality(avlInserted) + 1 /\ AvlInsert(val)
    \/ \E node \in Reachable(avlHeap, avlRoot) :
           avlHeap[node].left # NIL /\ AvlRightRotate(node)
    \/ \E node \in Reachable(avlHeap, avlRoot) :
           avlHeap[node].right # NIL /\ AvlLeftRotate(node)
    \/ \E node \in Reachable(avlHeap, avlRoot) : AvlRotate(node)

SpecRebalance == Init /\ [][NextRebalance]_vars

\* a BinarySearchTree that is inserted into and removed from
NextBstRemove ==
    \/ \E val \in BstValues : BstInsert(val)
    \/ \E val \in BstValues : BstRemove(val)

SpecBstRemove == Init /\ [][NextBstRemove]_vars

\* the three trees, one at a time: a tree is changed while the other two
\* are empty (they share no state)
NextTrees ==
    \/ \E val \in AvlValues : bstRoot = NIL /\ btRoot = NIL /\ AvlInsert(val)
    \/ \E val \in BstValues : avlRoot = NIL /\ btRoot = NIL /\ BstInsert(val)
    \/ \E val \in BstValues : avlRoot = NIL /\ btRoot = NIL /\ BstRemove(val)
    \/ \E val \in BtValues : avlRoot = NIL /\ bstRoot = NIL /\ BtInsertOnly(val)

SpecTrees == Init /\ [][NextTrees]_vars

\* an AvlTree that 1, 2, 3, .. are inserted into in this order
NextAscending == AvlInsertNext

SpecAscending == Init /\ [][NextAscending]_vars

\* an AvlTree that is inserted into and copied by to_tree
NextCopy ==
    \/ \E val \in CopyValues : AvlInsert(val)
    \/ AvlToTree

SpecCopy == Init /\ [][NextCopy]_vars

\* a BinaryTree built by BinaryTree::insert alone
NextComplete ==
    \E val \in BtValues : BtInsertOnly(val)

SpecComplete == Init /\ [][NextComplete]_vars

\* a BinaryTree of any shape, and the three traversals of it
NextTraversal ==
    \/ \E val \in BtValues : BtInsert(val)
    \/ \E above \in DOMAIN btHeap, toLeft \in BOOLEAN, val \in BtValues :
           BtAttach(above, toLeft, val)
    \/ BtPreOrder
    \/ BtInOrder
    \/ BtPostOrder

SpecTraversal == Init /\ [][NextTraversal]_vars

\* ------------------------------------------------------------------ properties
\* the height of the subtree at `node`, counted on the links (not the cached field)
RECURSIVE TrueHeight(_, _)
TrueHeight(h, node) ==
    IF node = NIL THEN -1
    ELSE 1 + Max2(TrueHeight(h, h[node].left), TrueHeight(h, h[node].right))

\* the ascending sequence of the integers of a finite set
RECURSIVE SortedSeq(_)
SortedSeq(S) ==
    IF S = {} THEN <<>>
    ELSE LET m == CHOOSE x \in S : \A y \in S : x <= y
         IN <<m>> \o SortedSeq(S \ {m})

StrictlyAscending(s) == \A i \in 1..(Len(s) - 1) : s[i] < s[i + 1]

AvlNodes == Reachable(avlHeap, avlRoot)
BstNodes == Reachable(bstHeap, bstRoot)
BtNodes == Reachable(btHeap, btRoot)

\* the cell made by the insert that has just returned (AvlTree never frees)
AvlNewest == Cardinality(DOMAIN avlHeap)

\* C1: after every AvlTree::insert that returned, every node's balance factor
\* (true height of the left subtree minus true height of the right subtree,
\* an absent subtree having height -1) is -1, 0 or 1.
AvlBalanced ==
    ~panicked =>
        \A n \in AvlNodes :
            TrueHeight(avlHeap, avlHeap[n].left)
                - TrueHeight(avlHeap, avlHeap[n].right) \in {-1, 0, 1}

\* C1 witness: an insert has returned, a rotation has replaced the first root
\* (cell 1), and the tree holds at least five nodes.
AvlBalancedWitness ==
    /\ last.op = "AvlTree::insert"
    /\ ~last.flag
    /\ avlRoot # NIL /\ avlRoot # 1
    /\ Cardinality(AvlNodes) >= 5

\* C2: after every AvlTree::insert that returned, every node's cached height
\* is 1 + max(height(left), height(right)) with -1 for an absent child, so a
\* leaf caches 0.
AvlHeightsCached ==
    ~panicked =>
        \A n \in AvlNodes :
            /\ avlHeap[n].height
                 = 1 + Max2(height(avlHeap, avlHeap[n].left),
                            height(avlHeap, avlHeap[n].right))
            /\ avlHeap[n].height = TrueHeight(avlHeap, n)

\* C2 witness: the node just inserted has two children at once, which only a
\* double rotation brings about, and it is not the root: the double rotation
\* was made at a node below the root.
AvlHeightsCachedWitness ==
    /\ last.op = "AvlTree::insert"
    /\ ~last.flag
    /\ AvlNewest >= 5
    /\ avlHeap[AvlNewest].value = last.arg
    /\ avlHeap[AvlNewest].left # NIL
    /\ avlHeap[AvlNewest].right # NIL
    /\ avlRoot # AvlNewest

\* C3: to_tree().to_vec() is the strictly ascending sequence of the distinct
\* values inserted so far.
AvlToVecSorted ==
    ~panicked =>
        AvlToTreeToVec(avlHeap, avlRoot) = SortedSeq(avlInserted)

\* C3 witness: to_tree().to_vec() has returned six values for a tree whose
\* first root was replaced by a rotation.
AvlToVecSortedWitness ==
    /\ last.op = "AvlTree::to_tree"
    /\ Len(last.vec) >= 6
    /\ avlRoot # 1

\* C4: search(v) returns a node of the tree holding v for every inserted v,
\* and None for every v never inserted.
AvlSearchCorrect ==
    ~panicked =>
        \A v \in AvlValues :
            LET r == AvlTree_search(avlHeap, avlRoot, v)
            IN IF v \in avlInserted
               THEN r \in AvlNodes /\ avlHeap[r].value = v
               ELSE r = NIL

\* C4 witness: search has found a value below the root of a rotated tree,
\* while another value was never inserted.
AvlSearchCorrectWitness ==
    /\ last.op = "AvlTree::search"
    /\ last.node # NIL
    /\ last.node # avlRoot
    /\ avlHeap[last.node].value = last.arg
    /\ avlRoot # 1
    /\ avlInserted # AvlValues

\* C5 (last'.flag: the tree held the value when insert was called): an
\* insert of a value the tree already holds changes nothing: no cell
\* of the heap (links, values, cached heights) and not the root, for the
\* AvlTree and for the BinarySearchTree alike, and it does not panic.
DuplicateInsertIsNoOp ==
    [][/\ (last'.op = "AvlTree::insert" /\ last'.flag)
            => (avlHeap' = avlHeap /\ avlRoot' = avlRoot /\ ~panicked')
       /\ (last'.op = "BinarySearchTree::insert" /\ last'.flag)
            => (bstHeap' = bstHeap /\ bstRoot' = bstRoot /\ ~panicked')]_vars

\* C5 witness: AvlTree::insert has returned from a value that a node below
\* the root of a three-node tree already held, the BinarySearchTree holding
\* values too.
DuplicateInsertWitness ==
    /\ last.op = "AvlTree::insert"
    /\ last.flag
    /\ Cardinality(AvlNodes) >= 3
    /\ avlHeap[avlRoot].value # last.arg
    /\ Cardinality(BstNodes) >= 2

\* every node's left subtree holds smaller values and its right subtree larger ones
BstOrdered(h, root) ==
    \A n \in Reachable(h, root) :
        /\ \A m \in Reachable(h, h[n].left) : h[m].value < h[n].value
        /\ \A m \in Reachable(h, h[n].right) : h[m].value > h[n].value

\* C6: after any sequence of BinarySearchTree::insert calls every node
\* satisfies the order invariant and to_vec() is the strictly ascending
\* sequence of the distinct values inserted.
BstInsertOrdered ==
    ~panicked =>
        /\ BstOrdered(bstHeap, bstRoot)
        /\ in_order(bstHeap, bstRoot) = SortedSeq(bstPresent)
        /\ StrictlyAscending(in_order(bstHeap, bstRoot))

\* C6 witness: to_vec() has returned four values from a tree whose root has
\* two children.
BstInsertOrderedWitness ==
    /\ last.op = "BinarySearchTree::to_vec"
    /\ Len(last.vec) >= 4
    /\ bstHeap[bstRoot].left # NIL
    /\ bstHeap[bstRoot].right # NIL

\* the sequence s without its entries equal to v
Without(s, v) == SelectSeq(s, LAMBDA x : x # v)

\* how often v occurs in s
Occurrences(s, v) == Cardinality({i \in 1..Len(s) : s[i] = v})

\* C7 (last'.flag: the tree held v when remove was called): remove(v) of a
\* value the tree holds does not panic; afterwards
\* search(v) returns None and to_vec() is the to_vec() of before without its
\* one occurrence of v, still strictly ascending.
BstRemoveCorrect ==
    [][(last'.op = "BinarySearchTree::remove" /\ last'.flag)
         => LET before == in_order(bstHeap, bstRoot)
                after == in_order(bstHeap', bstRoot')
            IN /\ ~panicked'
               /\ BinarySearchTree_search(bstHeap', bstRoot', last'.arg) = NIL
               /\ Occurrences(before, last'.arg) = 1
               /\ after = Without(before, last'.arg)
               /\ StrictlyAscending(after)]_vars

\* C7 witness: remove has returned from a node that was not the root and had
\* two children: its cell is still in the tree, with the successor's value.
BstRemoveCorrectWitness ==
    /\ last.op = "BinarySearchTree::remove"
    /\ last.flag
    /\ last.node \in BstNodes
    /\ last.node # bstRoot
    /\ bstHeap[last.node].value > last.arg

\* C8: search(v) returns a node of the tree holding v exactly when v was
\* inserted and not removed since.
BstSearchCorrect ==
    ~panicked =>
        \A v \in BstValues :
            LET r == BinarySearchTree_search(bstHeap, bstRoot, v)
            IN IF v \in bstPresent
               THEN r \in BstNodes /\ bstHeap[r].value = v
               ELSE r = NIL

\* C8 witness: search has found a value below the root after a removal (a cell
\* was released and not allocated again).
BstSearchCorrectWitness ==
    /\ last.op = "BinarySearchTree::search"
    /\ last.node # NIL
    /\ last.node # bstRoot
    /\ bstHeap[last.node].value = last.arg
    /\ DOMAIN bstHeap # 1..Cardinality(DOMAIN bstHeap)
    /\ Cardinality(BstNodes) >= 2

\* C9 (~last'.flag: the tree did not hold v when remove was called):
\* remove(v) of a value the tree does not hold (the empty tree included)
\* does not panic and leaves the root and every cell as they were.
BstRemoveAbsentIsNoOp ==
    [][(last'.op = "BinarySearchTree::remove" /\ ~last'.flag)
         => (~panicked' /\ bstHeap' = bstHeap /\ bstRoot' = bstRoot)]_vars

\* C9 witness: remove has returned from a value that a tree of at least three
\* nodes did not hold.
BstRemoveAbsentWitness ==
    /\ last.op = "BinarySearchTree::remove"
    /\ ~last.flag
    /\ last.node = NIL
    /\ Cardinality(BstNodes) >= 3

\* C10: contains_bfs, contains_dfs and contains return the same boolean for
\* every target, and it is TRUE exactly when a node of the tree holds the
\* target.
ContainsAgree ==
    \A val \in BtTargets :
        LET held == \E n \in BtNodes : btHeap[n].value = val
        IN /\ contains_bfs(btHeap, btRoot, val) = held
           /\ contains_dfs(btHeap, btRoot, val) = held
           /\ contains(btHeap, btRoot, val) = held

\* C10 witness: contains_bfs has returned TRUE for a value that neither the
\* root nor its two children hold, in a four-node tree that is not complete
\* (the left child has no left child).
ContainsAgreeWitness ==
    /\ last.op = "bt::contains_bfs"
    /\ last.flag
    /\ btRoot # NIL
    /\ btHeap[btRoot].left # NIL
    /\ btHeap[btRoot].right # NIL
    /\ btHeap[btRoot].value # last.arg
    /\ btHeap[btHeap[btRoot].left].value # last.arg
    /\ btHeap[btHeap[btRoot].right].value # last.arg
    /\ btHeap[btHeap[btRoot].left].left = NIL
    /\ Cardinality(BtNodes) = 4

\* the values of the subtree at `n`, the root before its left subtree before
\* its right subtree
RECURSIVE RootLeftRight(_, _)
RootLeftRight(h, n) ==
    IF n = NIL THEN <<>>
    ELSE <<h[n].value>> \o RootLeftRight(h, h[n].left) \o RootLeftRight(h, h[n].right)

\* the left subtree before the root before the right subtree
RECURSIVE LeftRootRight(_, _)
LeftRootRight(h, n) ==
    IF n = NIL THEN <<>>
    ELSE LeftRootRight(h, h[n].left) \o <<h[n].value>> \o LeftRootRight(h, h[n].right)

\* the left subtree before the right subtree before the root
RECURSIVE LeftRightRoot(_, _)
LeftRightRoot(h, n) ==
    IF n = NIL THEN <<>>
    ELSE LeftRightRoot(h, h[n].left) \o LeftRightRoot(h, h[n].right) \o <<h[n].value>>

\* C11: bt::pre_order, bt::in_order and bt::post_order return the values in
\* root-left-right, left-root-right and left-right-root order, one entry for
\* every node, and the empty sequence for the empty tree; the value the last
\* traversal call returned is that sequence.
TraversalOrders ==
    LET pre == pre_order(btHeap, btRoot)
        ino == in_order(btHeap, btRoot)
        post == post_order(btHeap, btRoot)
    IN /\ pre = RootLeftRight(btHeap, btRoot)
       /\ ino = LeftRootRight(btHeap, btRoot)
       /\ post = LeftRightRoot(btHeap, btRoot)
       /\ Len(pre) = Cardinality(BtNodes)
       /\ Len(ino) = Cardinality(BtNodes)
       /\ Len(post) = Cardinality(BtNodes)
       /\ btRoot = NIL => pre = <<>> /\ ino = <<>> /\ post = <<>>
       /\ last.op = "bt::pre_order" => last.vec = pre
       /\ last.op = "bt::in_order" => last.vec = ino
       /\ last.op = "bt::post_order" => last.vec = post

\* C11 witness: pre_order has returned the values of a tree of four or more
\* nodes whose root has two children and whose left child has a child, and
\* the three traversals of that tree differ pairwise.
TraversalOrdersWitness ==
    /\ last.op = "bt::pre_order"
    /\ Cardinality(BtNodes) >= 4
    /\ btRoot # NIL
    /\ btHeap[btRoot].left # NIL
    /\ btHeap[btRoot].right # NIL
    /\ btHeap[btHeap[btRoot].left].left # NIL
    /\ last.vec # in_order(btHeap, btRoot)
    /\ last.vec # post_order(btHeap, btRoot)
    /\ in_order(btHeap, btRoot) # post_order(btHeap, btRoot)

\* the node at position k of the level-order numbering of a complete tree:
\* position 0 is the root, an odd k the left child and an even k the right
\* child of position (k - 1) \div 2; NIL where there is no such node
RECURSIVE NodeAt(_, _, _)
NodeAt(h, root, k) ==
    IF k = 0 THEN root
    ELSE LET parentNode == NodeAt(h, root, (k - 1) \div 2)
         IN IF parentNode = NIL THEN NIL
            ELSE IF k % 2 = 1 THEN h[parentNode].left ELSE h[parentNode].right

\* the values of the tree level by level, each level left to right
RECURSIVE LevelOrder(_, _)
LevelOrder(h, level) ==
    IF level = <<>> THEN <<>>
    ELSE LET n == Head(level)
         IN IF n = NIL THEN LevelOrder(h, Tail(level))
            ELSE <<h[n].value>> \o LevelOrder(h, Tail(level) \o <<h[n].left, h[n].right>>)

\* C12: in a BinaryTree built by insert alone the k-th inserted value
\* (k = 0, 1, ..) is at the root when k = 0 and otherwise at the left (k odd)
\* or right (k even) child of the node of the ((k - 1) div 2)-th inserted
\* value; these are all the nodes, so the tree is complete, and the
\* level-order listing is the insertion order.
InsertFillsLevels ==
    LET n == Len(btCreated)
    IN /\ \A k \in 0..(n - 1) :
              /\ NodeAt(btHeap, btRoot, k) # NIL
              /\ btHeap[NodeAt(btHeap, btRoot, k)].value = btCreated[k + 1]
       /\ BtNodes = {NodeAt(btHeap, btRoot, k) : k \in 0..(n - 1)}
       /\ Cardinality(BtNodes) = n
       /\ LevelOrder(btHeap, <<btRoot>>) = btCreated

\* C12 witness: insert has put a sixth or later value into the tree, and the
\* fifth and sixth inserted values (the children of the third) differ.
InsertFillsLevelsWitness ==
    /\ last.op = "BinaryTree::insert"
    /\ Len(btCreated) >= 6
    /\ btCreated[5] # btCreated[6]
    /\ btHeap[btHeap[btRoot].right].left # NIL

\* the subtree at n1 of h1 and the subtree at n2 of h2 have the same shape
\* and the same value at every position
RECURSIVE SameTree(_, _, _, _)
SameTree(h1, n1, h2, n2) ==
    IF n1 = NIL \/ n2 = NIL THEN n1 = NIL /\ n2 = NIL
    ELSE /\ h1[n1].value = h2[n2].value
         /\ SameTree(h1, h1[n1].left, h2, h2[n2].left)
         /\ SameTree(h1, h1[n1].right, h2, h2[n2].right)

\* C13: AvlTree::to_tree returns a BinaryTree with the shape and the values
\* of the AVL tree (so the pre-order and in-order listings agree), made of
\* one new cell per AVL node, and leaves the AVL tree as it was; a later
\* AvlTree::insert leaves the copy as it was.
ToTreeCopies ==
    [][/\ last'.op = "AvlTree::to_tree" =>
             /\ SameTree(avlHeap, avlRoot, copyHeap', copyRoot')
             /\ pre_order(copyHeap', copyRoot') = RootLeftRight(avlHeap, avlRoot)
             /\ in_order(copyHeap', copyRoot') = LeftRootRight(avlHeap, avlRoot)
             /\ Reachable(copyHeap', copyRoot') = DOMAIN copyHeap'
             /\ Cardinality(DOMAIN copyHeap') = Cardinality(AvlNodes)
             /\ avlHeap' = avlHeap
             /\ avlRoot' = avlRoot
       /\ last'.op = "AvlTree::insert" =>
             /\ copyHeap' = copyHeap
             /\ copyRoot' = copyRoot]_vars

\* C13 witness: after to_tree copied a two-node AVL tree, an insert has
\* added a third node and rotated the AVL tree (its root holds another value
\* than the copy's root), and the copy is still the two-node chain.
ToTreeCopiesWitness ==
    /\ last.op = "AvlTree::insert"
    /\ ~last.flag
    /\ Cardinality(AvlNodes) = 3
    /\ Cardinality(Reachable(copyHeap, copyRoot)) = 2
    /\ avlHeap[avlRoot].value # copyHeap[copyRoot].value
    /\ avlHeap[avlRoot].left # NIL
    /\ avlHeap[avlRoot].right # NIL

\* the largest k with 2^k <= x, for x >= 1
RECURSIVE FloorLog2(_)
FloorLog2(x) == IF x < 2 THEN 0 ELSE 1 + FloorLog2(x \div 2)

\* C14: after 1, 2, .., N (N >= 1) were inserted in ascending order into an
\* empty AvlTree, its height, the cached height of the root, is at most
\* 1.45 * log2(N + 2) - 0.33.  Stated in integers with the floor of the
\* logarithm, which is not above the logarithm:
\* 100 * height + 33 <= 145 * floor(log2(N + 2)); the cached height is the
\* height counted on the links.
AscendingHeightBound ==
    LET N == Cardinality(avlInserted)
    IN N >= 1 =>
          /\ avlInserted = 1..N
          /\ height(avlHeap, avlRoot) = TrueHeight(avlHeap, avlRoot)
          /\ 100 * height(avlHeap, avlRoot) + 33 <= 145 * FloorLog2(N + 2)

\* C14 witness: the insert of 64 after 1..63 has raised the height to 6.
AscendingHeightBoundWitness ==
    /\ last.op = "AvlTree::insert"
    /\ last.arg = 64
    /\ avlInserted = 1..64
    /\ height(avlHeap, avlRoot) = 6

\* C15: right_rotate called on a node without a left child, and left_rotate
\* called on a node without a right child, panic: no subtree is returned and
\* no cell has been changed.
RotateWithoutChildPanics ==
    [][/\ (last'.op = "right_rotate" /\ avlHeap[last'.arg].left = NIL) =>
             /\ panicked'
             /\ last'.flag
             /\ last'.node = NIL
             /\ avlHeap' = avlHeap
       /\ (last'.op = "left_rotate" /\ avlHeap[last'.arg].right = NIL) =>
             /\ panicked'
             /\ last'.flag
             /\ last'.node = NIL
             /\ avlHeap' = avlHeap]_vars

\* C15 witness: right_rotate has panicked on a root that has a right child
\* and no left child.
RotateWithoutChildPanicsWitness ==
    /\ last.op = "right_rotate"
    /\ panicked
    /\ last.arg = avlRoot
    /\ avlHeap[avlRoot].left = NIL
    /\ avlHeap[avlRoot].right # NIL

\* the oldest element of a FIFO as an Option
Oldest(fifo) == IF fifo = <<>> THEN None ELSE Some(Head(fifo))

\* C16: QueueWithArray is a FIFO bounded by N, wrap-around of the front index
\* and the write position included: after every call len is the number of
\* elements pushed and not popped, to_vec lists them oldest first and returns
\* that list, pop returns the oldest element, and peek returns it and removes
\* nothing.
QueueIsFifo ==
    [][/\ qLen' = Len(qFifo')
       /\ QueueWithArray_to_vec(QueueWithArray(qQueue', qFront', qLen')) = qFifo'
       /\ last'.op = "QueueWithArray::pop" => last'.vec = Oldest(qFifo)
       /\ last'.op = "QueueWithArray::peek" =>
             /\ last'.vec = Oldest(qFifo)
             /\ UNCHANGED queueVars
       /\ last'.op = "QueueWithArray::to_vec" =>
             /\ last'.vec = qFifo
             /\ last'.arg = Len(qFifo)]_vars

\* C16 witness: pop has returned the oldest element of a full queue whose
\* elements wrap around the end of the array, and the two oldest elements
\* differ.
QueueIsFifoWitness ==
    /\ last.op = "QueueWithArray::pop"
    /\ last.vec # None
    /\ qLen = QueueCap - 1
    /\ qFront = 0
    /\ qQueue[1] # None
    /\ qQueue[QueueCap] = None
    /\ last.vec # Some(Head(qFifo))

\* C17: tail returns the most recently pushed element of every non-empty
\* QueueWithArray that can be reached, and None of the empty one.
TailIsNewest ==
    LET r == QueueWithArray_tail(Q)
    IN /\ ~r.panic
       /\ r.ret = (IF qFifo = <<>> THEN None ELSE Some(qFifo[Len(qFifo)]))

\* C17: tail has panicked on a queue that had been filled by N pushes and
\* never popped from.
TailPanicsWitness ==
    /\ last.op = "QueueWithArray::tail"
    /\ panicked
    /\ qFront = 0
    /\ qLen = QueueCap

\* C18: len stays within 0..N; push on a full queue panics and writes no
\* slot; pop and peek on an empty queue return None and leave front and len
\* as they were.
QueueBounds ==
    /\ [](0 <= qLen /\ qLen <= QueueCap)
    /\ [][/\ (last'.op = "QueueWithArray::push" /\ qLen = QueueCap) =>
                /\ panicked'
                /\ UNCHANGED <<qQueue, qFront, qLen>>
          /\ (last'.op = "QueueWithArray::pop" /\ qLen = 0) =>
                /\ last'.vec = None
                /\ UNCHANGED <<qQueue, qFront, qLen>>
          /\ (last'.op = "QueueWithArray::peek" /\ qLen = 0) =>
                /\ last'.vec = None
                /\ UNCHANGED <<qQueue, qFront, qLen>>]_vars

\* C18 witness: push has panicked on a full queue whose front is not slot 0.
QueueBoundsWitness ==
    /\ last.op = "QueueWithArray::push"
    /\ panicked
    /\ qLen = QueueCap
    /\ qFront # 0

\* the max-heap property of a Vec: the element at index i >= 1 (v[i + 1]) is
\* not above the element at index (i - 1) div 2
IsMaxHeap(v) == \A i \in 1..(Len(v) - 1) : v[i + 1] <= v[((i - 1) \div 2) + 1]

\* the largest element of a list as an Option
Largest(v) ==
    IF v = <<>> THEN None
    ELSE Some(CHOOSE x \in {v[i] : i \in 1..Len(v)} : \A i \in 1..Len(v) : v[i] <= x)

\* list w holds the elements of list v and `more` once more
WithOneMore(w, v, more) ==
    \A x \in HeapValues :
        Occurrences(w, x) = Occurrences(v, x) + (IF Some(x) = more THEN 1 ELSE 0)

\* C19: after every sequence of push and pop on a MaxHeap that started empty
\* the Vec has the max-heap property and peek returns the largest element
\* (None when empty); push adds its value and nothing else; pop returns the
\* largest element and removes exactly one occurrence of it, and returns
\* None on the empty heap.
MaxHeapCorrect ==
    /\ [](IsMaxHeap(maxHeap) /\ MaxHeap_peek(maxHeap) = Largest(maxHeap))
    /\ [][/\ last'.op = "MaxHeap::push" =>
                WithOneMore(maxHeap', maxHeap, Some(last'.arg))
          /\ last'.op = "MaxHeap::pop" =>
                /\ last'.vec = Largest(maxHeap)
                /\ WithOneMore(maxHeap, maxHeap', last'.vec)
                /\ Len(maxHeap') = (IF maxHeap = <<>> THEN 0 ELSE Len(maxHeap) - 1)
                /\ ~panicked'
          /\ last'.op = "MaxHeap::peek" =>
                /\ last'.vec = Largest(maxHeap)
                /\ UNCHANGED maxHeap]_vars

\* C19 witness: pop has returned the largest of five values, which the heap
\* still holds another occurrence of, and the heap holds a smaller value too.
MaxHeapCorrectWitness ==
    /\ last.op = "MaxHeap::pop"
    /\ Len(maxHeap) = 4
    /\ last.vec = Largest(maxHeap)
    /\ \E i \in 1..4 : Some(maxHeap[i]) # last.vec

\* C20: MaxHeap::from_vec builds a heap from every list, the lists of length
\* 0 and 1 included: it returns, the Vec then holds the elements of the
\* list, each as often as the list, and has the max-heap property.
FromVecBuildsHeap ==
    last.op = "MaxHeap::from_vec" =>
        /\ ~panicked
        /\ Len(maxHeap) = Len(last.vec)
        /\ \A x \in HeapValues : Occurrences(maxHeap, x) = Occurrences(last.vec, x)
        /\ IsMaxHeap(maxHeap)

\* C20: from_vec has panicked on a list of one element in a build without
\* overflow checks.
FromVecPanicsWitness ==
    /\ last.op = "MaxHeap::from_vec"
    /\ panicked
    /\ Len(last.vec) = 1
    /\ ~last.flag

\* from_vec builds a heap from every list of two or more elements, in both
\* builds
FromVecOfTwoOrMore ==
    (last.op = "MaxHeap::from_vec" /\ Len(last.vec) >= 2) =>
        /\ ~panicked
        /\ Len(maxHeap) = Len(last.vec)
        /\ \A x \in HeapValues : Occurrences(maxHeap, x) = Occurrences(last.vec, x)
        /\ IsMaxHeap(maxHeap)

\* the outcomes of from_vec on the empty list: a panic with overflow checks,
\* the empty heap without
FromVecOfNone ==
    (last.op = "MaxHeap::from_vec" /\ last.vec = <<>>) =>
        IF last.flag THEN panicked ELSE ~panicked /\ maxHeap = <<>>

\* heap holds the `count` largest elements of nums, repeated values counted,
\* smallest first: it is ascending, no value is in it more often than in
\* nums, and a value of nums that is left out at least once is not above any
\* element of heap
HoldsLargest(heap, nums, count) ==
    /\ Len(heap) = count
    /\ \A i \in 1..(Len(heap) - 1) : heap[i] <= heap[i + 1]
    /\ \A x \in TopKValues :
          /\ Occurrences(heap, x) <= Occurrences(nums, x)
          /\ Occurrences(heap, x) < Occurrences(nums, x) =>
                \A i \in 1..Len(heap) : x <= heap[i]

\* the smaller of two numbers
Min2(a, b) == IF a <= b THEN a ELSE b

\* C21: for every list nums and every k >= 0, top_k_heap(nums, k) returns a
\* heap that holds exactly the min(k, n) largest elements of nums, repeated
\* values counted, so that popping it yields them in ascending order.
TopKLargest ==
    last.op = "top_k_heap" =>
        /\ ~panicked
        /\ HoldsLargest(topHeap, last.vec, Min2(last.arg, Len(last.vec)))

\* C21: top_k_heap has panicked on a non-empty list with k = 0.
TopKPanicsWitness ==
    /\ last.op = "top_k_heap"
    /\ panicked
    /\ last.arg = 0
    /\ last.vec # <<>>

\* top_k_heap returns the min(k, n) largest elements whenever k >= 1 or the
\* list is empty, and panics otherwise
TopKForPositiveK ==
    last.op = "top_k_heap" =>
        IF last.arg >= 1 \/ last.vec = <<>>
        THEN /\ ~panicked
             /\ HoldsLargest(topHeap, last.vec, Min2(last.arg, Len(last.vec)))
        ELSE panicked

\* the newest element of a sequence as an Option
Newest(seq) == IF seq = <<>> THEN None ELSE Some(seq[Len(seq)])

\* the element at index i (from 0) of a sequence as an Option
At(seq, i) == IF i < Len(seq) THEN Some(seq[i + 1]) ELSE None

\* front, back, len, get and the front-to-back iteration of the list l agree
\* with the sequence seq, and the cells of the list are the cells of the walk
ListAgrees(h, l, seq) ==
    /\ LinkedList_front(h, l) = Oldest(seq)
    /\ LinkedList_back(h, l) = Newest(seq)
    /\ LinkedList_len(l) = Len(seq)
    /\ LinkedList_iter(h, l) = seq
    /\ \A i \in 0..(Len(seq) + 1) :
          LET r == LinkedList_get(h, l, i)
          IN ~r.panic /\ r.ret = At(seq, i)

\* C22: LinkedList is a double-ended sequence: after every sequence of
\* push_front, push_back, pop_front and pop_back from the empty list, front,
\* back, len, get(i) and the front-to-back iteration agree with the abstract
\* sequence, with one cell allocated per element; each pop returns and
\* removes the element at its end, and a pop on the empty list returns None
\* and leaves the list empty; the values the reading calls returned are
\* those of the abstract sequence.
ListIsDeque ==
    /\ [](/\ ListAgrees(llHeap, llA, llSeqA)
          /\ Cardinality(DOMAIN llHeap) = Len(llSeqA))
    /\ [][/\ last'.op = "LinkedList::pop_front" => last'.vec = Oldest(llSeqA)
          /\ last'.op = "LinkedList::pop_back" => last'.vec = Newest(llSeqA)
          /\ (last'.op \in {"LinkedList::pop_front", "LinkedList::pop_back"}
                 /\ llSeqA = <<>>) =>
                /\ last'.vec = None
                /\ llA' = LinkedList_new
          /\ last'.op = "LinkedList::front" => last'.vec = Oldest(llSeqA)
          /\ last'.op = "LinkedList::back" => last'.vec = Newest(llSeqA)
          /\ last'.op = "LinkedList::get" => last'.vec = At(llSeqA, last'.arg)
          /\ last'.op = "LinkedList::iter" =>
                /\ last'.vec = llSeqA
                /\ last'.arg = Len(llSeqA)]_vars

\* C22 witness: pop_back has returned an element and has left two different
\* elements, of which the front one was pushed (by push_front) after the
\* back one: its cell is the younger.
ListIsDequeWitness ==
    /\ last.op = "LinkedList::pop_back"
    /\ last.vec # None
    /\ Len(llSeqA) = 2
    /\ llSeqA[1] # llSeqA[2]
    /\ llHeap[llA.head].next = llA.tail
    /\ llA.head > llA.tail

\* a sequence in reverse order
Reversed(seq) == [i \in 1..Len(seq) |-> seq[Len(seq) + 1 - i]]

\* C23: for a LinkedList of any length, after reverse the front-to-back
\* sequence is the previous one in reverse order and len is unchanged; front
\* and back are exchanged; a second reverse restores the list.  The list
\* stays a double-ended sequence: what is pushed and popped after a reverse
\* agrees with the abstract sequence.
ReverseReverses ==
    /\ [](/\ ListAgrees(llHeap, llA, llSeqA)
          /\ LET once == LinkedList_reverse(llHeap, llA)
                 twice == LinkedList_reverse(once.heap, once.list)
             IN /\ twice.heap = llHeap
                /\ twice.list = llA)
    /\ [][last'.op = "LinkedList::reverse" =>
             /\ LinkedList_iter(llHeap', llA') = Reversed(LinkedList_iter(llHeap, llA))
             /\ LinkedList_len(llA') = LinkedList_len(llA)
             /\ LinkedList_front(llHeap', llA') = LinkedList_back(llHeap, llA)
             /\ LinkedList_back(llHeap', llA') = LinkedList_front(llHeap, llA)]_vars

\* C23 witness: reverse has reversed a list of three elements whose first
\* and last element differ.
ReverseReversesWitness ==
    /\ last.op = "LinkedList::reverse"
    /\ Len(llSeqA) = 3
    /\ llSeqA[1] # llSeqA[3]
    /\ LinkedList_iter(llHeap, llA) = llSeqA

\* C24: a.append(&mut b) moves every element of b to the end of a: a then
\* holds its old elements followed by the old elements of b and its len is the
\* sum of the two; b is empty, with len 0, no head and no tail; for an empty
\* and a non-empty a and b alike.  Both lists agree with their abstract
\* sequences before and after, and no cell is allocated, freed or shared.
AppendMoves ==
    /\ [](/\ ListAgrees(llHeap, llA, llSeqA)
          /\ ListAgrees(llHeap, llB, llSeqB)
          /\ Cardinality(DOMAIN llHeap) = Len(llSeqA) + Len(llSeqB))
    /\ [][last'.op = "LinkedList::append" =>
             /\ LinkedList_iter(llHeap', llA')
                    = LinkedList_iter(llHeap, llA) \o LinkedList_iter(llHeap, llB)
             /\ LinkedList_len(llA') = LinkedList_len(llA) + LinkedList_len(llB)
             /\ llB' = LinkedList_new
             /\ DOMAIN llHeap' = DOMAIN llHeap]_vars

\* C24 witness: a non-empty list has been appended to a non-empty list.
AppendMovesWitness ==
    /\ last.op = "LinkedList::append"
    /\ llSeqA = <<1, 2, 1>>
    /\ LinkedList_iter(llHeap, llA) = llSeqA
    /\ llHeap[llA.head].next # llA.tail
    /\ llB = LinkedList_new

\* an empty list has been appended to
AppendToEmpty ==
    /\ last.op = "LinkedList::append"
    /\ llSeqA = <<2>>
    /\ llA.head = llA.tail
    /\ llHeap[llA.head].elem = 2

\* C25: in every sequence of AvlTree::insert calls from the empty tree,
\* right_rotate is only called on a node with a left child and left_rotate
\* only on a node with a right child, the inner rotation of a double rotation
\* included: no unwrap() of rotate, right_rotate or left_rotate faults, so no
\* insert panics.
InsertNeverPanics == ~panicked

\* C25 witness: the value just inserted has both children, which only a
\* double rotation does to a new node, in a tree of five nodes or more.
InsertNeverPanicsWitness ==
    /\ ~panicked
    /\ last.op = "AvlTree::insert"
    /\ ~last.flag
    /\ Cardinality(avlInserted) >= 5
    /\ \E n \in AvlNodes :
           /\ avlHeap[n].value = last.arg
           /\ avlHeap[n].left # NIL
           /\ avlHeap[n].right # NIL

\* every node of the subtree at n has a balance factor of -1, 0 or 1 and
\* holds its true height
BalancedBelow(h, n) ==
    \A m \in Reachable(h, n) :
        /\ h[m].height = TrueHeight(h, m)
        /\ TrueHeight(h, h[m].left) - TrueHeight(h, h[m].right) \in {-1, 0, 1}

\* the two subtrees of n are AVL trees with correct heights, and n itself
\* is out of balance by two
OutOfBalanceByTwo(h, n) ==
    /\ BalancedBelow(h, h[n].left)
    /\ BalancedBelow(h, h[n].right)
    /\ balance_factor(h, n) \in {2, -2}

\* C26: for every node whose two subtrees satisfy the AVL invariant with
\* correct cached heights and whose balance factor is +2 or -2, rotate does
\* not panic and returns the root of a subtree under which every node has a
\* balance factor of -1, 0 or 1 and a correct cached height, and whose
\* in-order sequence is the one the subtree had before the call.
RotateRebalances ==
    [][(last'.op = "rotate" /\ OutOfBalanceByTwo(avlHeap, last'.arg)) =>
          /\ ~panicked'
          /\ BalancedBelow(avlHeap', last'.node)
          /\ LeftRootRight(avlHeap', last'.node) = LeftRootRight(avlHeap, last'.arg)
          /\ Reachable(avlHeap', last'.node) = Reachable(avlHeap, last'.arg)]_vars

\* C26 witness: rotate has returned another root than the node it was called
\* on, for a subtree of five nodes that is now balanced and in the order it
\* had before.
RotateRebalancesWitness ==
    /\ last.op = "rotate"
    /\ ~panicked
    /\ last.node # last.arg
    /\ Len(last.vec) = 5
    /\ LeftRootRight(avlHeap, last.node) = last.vec
    /\ BalancedBelow(avlHeap, last.node)

\* the child slots, among the nodes reachable from root, that refer to n
SlotsTo(h, root, n) ==
    {<<m, side>> \in Reachable(h, root) \X {"left", "right"} :
        (IF side = "left" THEN h[m].left ELSE h[m].right) = n}

\* the nodes reachable from root form a tree: no child slot refers to the
\* root, exactly one refers to every other node, and no node is below itself
IsTree(h, root) ==
    /\ Reachable(h, root) \subseteq DOMAIN h
    /\ \A n \in Reachable(h, root) :
          /\ Cardinality(SlotsTo(h, root, n)) = (IF n = root THEN 0 ELSE 1)
          /\ n \notin Reachable(h, h[n].left) \cup Reachable(h, h[n].right)

\* C27: after every completed mutating call (AvlTree::insert with its
\* rotations, BinarySearchTree::insert and ::remove, BinaryTree::insert) the
\* nodes reachable from the root form a tree: the root is no node's child,
\* every other reachable node is referred to by exactly one child slot of
\* exactly one node, and there is no cycle.
TreesAreTrees ==
    ~panicked =>
        /\ IsTree(avlHeap, avlRoot)
        /\ IsTree(bstHeap, bstRoot)
        /\ IsTree(btHeap, btRoot)

\* C27 witness: remove has taken a node with two children out of a
\* BinarySearchTree that still holds three nodes.
TreesAreTreesWitness ==
    /\ last.op = "BinarySearchTree::remove"
    /\ last.flag
    /\ ~panicked
    /\ last.node \in BstNodes
    /\ Cardinality(BstNodes) = 3
    /\ IsTree(bstHeap, bstRoot)

\* an AvlTree of six nodes whose last insert ended in a double rotation
TreesAvlDoubleRotation ==
    /\ last.op = "AvlTree::insert"
    /\ ~last.flag
    /\ Cardinality(AvlNodes) = 6
    /\ \E n \in AvlNodes :
           /\ avlHeap[n].value = last.arg
           /\ avlHeap[n].left # NIL
           /\ avlHeap[n].right # NIL
    /\ IsTree(avlHeap, avlRoot)

\* a BinaryTree of seven nodes built by insert
TreesBinaryTreeFull ==
    /\ last.op = "BinaryTree::insert"
    /\ Cardinality(BtNodes) = 7
    /\ IsTree(btHeap, btRoot)

\* the nodes of a BinarySearchTree that have two children
TwoChildren == {n \in BstNodes : bstHeap[n].left # NIL /\ bstHeap[n].right # NIL}

\* the smallest integer of a non-empty finite set
Smallest(S) == CHOOSE x \in S : \A y \in S : x <= y

\* C28: when BinarySearchTree::remove reaches its two-children arm, the
\* in-order successor (the leftmost node of the right subtree) has no left
\* child and is the node the nested remove(successor value) finds, so the
\* nested call takes the arm of no or one child: remove of any value nests
\* at most one call and ends without a panic; and the value written into the
\* place of the removed value is the smallest of its former right subtree.
RemoveNestsOnce ==
    /\ [](~panicked =>
            /\ \A n \in TwoChildren :
                  LET next == leftmost(bstHeap, bstHeap[n].right)
                  IN /\ next # NIL
                     /\ bstHeap[next].left = NIL
                     /\ descend(bstHeap, bstRoot, NIL, bstHeap[next].value).current = next
                     /\ remove_nesting(bstHeap, bstRoot, bstHeap[n].value) = 1
            /\ \A val \in BstValues : remove_nesting(bstHeap, bstRoot, val) <= 1)
    /\ [][(last'.op = "BinarySearchTree::remove" /\ last'.node \in TwoChildren) =>
             /\ ~panicked'
             /\ last'.node \in Reachable(bstHeap', bstRoot')
             /\ bstHeap'[last'.node].value
                    = Smallest(Values(bstHeap, bstHeap[last'.node].right))
             /\ Cardinality(Reachable(bstHeap', bstRoot')) = Cardinality(BstNodes) - 1]_vars

\* C28 witness: remove has written the value of a successor that was not
\* the right child of the removed node: the removed node is still in the
\* tree, with another value, and has kept both children.
RemoveNestsOnceWitness ==
    /\ last.op = "BinarySearchTree::remove"
    /\ last.flag
    /\ ~panicked
    /\ last.node \in TwoChildren
    /\ bstHeap[last.node].value # last.arg

====
